---- MODULE Spec2Model ----
(***************************************************************************)
(* A model of craiggwilson/validate: the validator combinators (And, Or,   *)
(* Field, Items, CustomMessage), the struct-tag scanner (parseTag) and the *)
(* resolution engine that assembles them.                                  *)
(*                                                                         *)
(* A Validator is modelled as a tree (a record with a `kind`), and         *)
(* Validator.Validate(ctx) as the recursive operator Validate(v, ctx),     *)
(* which returns the (error, warning) pair of the Go method together with  *)
(* `ran`, the list of leaf validators it invoked (in invocation order),    *)
(* and `panic`, set when the Go code would panic in package reflect.       *)
(***************************************************************************)
EXTENDS Integers, Sequences, FiniteSets, TLC

VARIABLES
    op,         \* the operation this run exercises ("And", "Or", "Items", ...)
    opts,       \* the Options in effect (StopOnError, WarningsAsErrors, Registry)
    children,   \* the validators handed to the combinator under test
    value,      \* the value checked (Context.Value of the top-level Context)
    validator,  \* the Validator the combinator returned
    out,        \* what validator.Validate(ctx) returned: [err, warn, ran, panic]
    pc,         \* "ready" before the operation has run, "scan" inside
                \* the struct-tag parser's loops, "done" after
    field,      \* the reflect.StructField whose tag is parsed
    tagParts,   \* DefaultStructTagParser: the disjunction parts of the tag
    disjuncts,  \* DefaultStructTagParser: the validators of the parts parsed so far
    scan,       \* parseTag: the locals of the scan of the current part
    parsed,     \* the StructTagParseResult (and error) DefaultStructTagParser returned
    stack,      \* the calls in progress of a resolution, outermost first
    ret,        \* what the call that returned last handed to its caller
    closures,   \* the closures delayedLookup has made, each with its variable v
    target,     \* the type (and closure) the operation in progress is about
    running,    \* the goroutine whose calls in progress are in stack and ret
    goroutines, \* each goroutine: its calls while another runs, its lookup, its check
    lock        \* Registry.lock, a sync.RWMutex: who holds it, who waits to write

vars == <<op, opts, children, value, validator, out, pc, field, tagParts, disjuncts, scan, parsed,
          stack, ret, closures, target, running, goroutines, lock>>

checkVars == <<op, opts, children, value, validator, out>>

parseVars == <<field, tagParts, disjuncts, scan, parsed>>

concVars == <<running, goroutines, lock>>

resolveVars == <<stack, ret, closures, target, concVars>>

-----------------------------------------------------------------------------
(* Bounds of the model *)

MaxChildren == 3   \* children of one And / Or
MaxItems == 3      \* elements of one slice handed to Items
MaxDepth == 2      \* pointers followed from the outermost struct of a cyclic value
MaxTagLen == 4     \* characters of a tag, for the tags enumerated exhaustively

-----------------------------------------------------------------------------
(* errors.go: errors and warnings.  An error value is [t, msg]: t is its   *)
(* dynamic Go type (what `switch err.(type)` sees), msg its Error() text.  *)

Nil == [t |-> "nil", msg |-> ""]

newError(msg) == [t |-> "*Error", msg |-> msg]

newWarning(msg) == [t |-> "*Warning", msg |-> msg]

\* fmt.Errorf / errors.New: a *errors.errorString, not a *validate.Error
errorString(msg) == [t |-> "*errors.errorString", msg |-> msg]

UnknownFieldError(typ, name) ==
    [t |-> "UnknownFieldError",
     msg |-> "\"" \o typ \o "\" does not contain a field \"" \o name \o "\""]

InvalidTagArgumentsError(name, msg) ==
    [t |-> "InvalidTagArgumentsError", msg |-> "(" \o name \o ") " \o msg]

ErrNoValidator(typ) == [t |-> "ErrNoValidator", msg |-> "no validator found for " \o typ]

ErrNoTagValidatorFactory(name) ==
    [t |-> "ErrNoTagValidatorFactory", msg |-> "no validator factory found for " \o name]

RECURSIVE mergeFrom(_, _, _, _)
mergeFrom(errs, paddedSep, i, errmsg) ==
    IF i > Len(errs) THEN errmsg
    ELSE mergeFrom(errs, paddedSep, i + 1, errmsg \o paddedSep \o errs[i].msg)

\* errs is never empty where the code calls it (it panics otherwise)
mergeErrorMessages(errs, sep) ==
    mergeFrom(errs, " " \o sep \o " ", 2, errs[1].msg)

mergeWarningsAndErrorsMixed(warnings, errs, sep) ==
    [err  |-> IF Len(errs \o warnings) > 0
              THEN newError(mergeErrorMessages(errs \o warnings, sep)) ELSE Nil,
     warn |-> Nil]

mergeWarningsAndErrors(warnings, errs, sep) ==
    [err  |-> IF Len(errs) > 0 THEN newError(mergeErrorMessages(errs, sep)) ELSE Nil,
     warn |-> IF Len(warnings) > 0 THEN newWarning(mergeErrorMessages(warnings, sep)) ELSE Nil]

MergeWarningKeepsError(err, warning) == err

MergeWarning(err, warning) ==
    IF err = Nil /\ warning = Nil THEN Nil
    ELSE newError(mergeErrorMessages(
             (IF err # Nil THEN <<err>> ELSE <<>>) \o
             (IF warning # Nil THEN <<warning>> ELSE <<>>), "and"))

-----------------------------------------------------------------------------
(* options.go *)

shouldStopOnWarningsAlone(o) == o.WarningsAsErrors

shouldStopOnWarnings(o) == o.StopOnError /\ o.WarningsAsErrors

-----------------------------------------------------------------------------
(* reflect.Type and reflect.Value as the validators use them.  A type is   *)
(* named by its Go spelling; Types gives its Kind, its element type and,   *)
(* for a struct, its fields with their tags (a tag text is the sequence of *)
(* its characters; a field's Tag maps each key present to its text).       *)

NoTag == [x \in {} |-> <<>>]
Tag1(k1, t1) == [x \in {k1} |-> t1]

StructField(name, typ, tag) == [Name |-> name, Type |-> typ, Tag |-> tag]

TypeDesc(kind, elem, fields) == [kind |-> kind, elem |-> elem, fields |-> fields]

\* validate_test.go: TestValidate_StructCycle (cycle), TestValidate_Items (ages),
\* TestValidate_Self and TestValidate_Warnings (the types with a Validate method)
Types ==
    [n \in {"int", "string", "[]int", "[][]int", "map[string]int", "*cycle", "cycle", "ages", "agesMap",
            "interface {}", "*interface {}", "**cycle",
            "selfAndTagValidator", "*selfAndTagValidator",
            "selfValidatorPtrRecv", "*selfValidatorPtrRecv",
            "warningValidator", "*warningValidator", "InnerWarning", "*InnerWarning",
            "badTag", "badName", "badArg", "lateBad", "tree", "forest"} |->
        CASE n = "int" -> TypeDesc("int", "", <<>>)
          \* structs with a field whose tag does not parse, names no registered
          \* factory, or names a factory that rejects the field's type
          [] n = "badTag" -> TypeDesc("struct", "", <<
                 StructField("A", "int", Tag1("validate", <<"g","t","(","0",")","|","i","n","(","0",")">>)),
                 StructField("B", "string", Tag1("validate", <<")">>)),
                 StructField("C", "string", Tag1("validate", <<"b">>)) >>)
          [] n = "badName" -> TypeDesc("struct", "", <<
                 StructField("A", "string", Tag1("validate", <<"b">>)),
                 StructField("B", "string", Tag1("validate", <<")">>)) >>)
          [] n = "badArg" -> TypeDesc("struct", "", <<
                 StructField("A", "string", Tag1("validate", <<"i","t","e","m","s">>)),
                 StructField("B", "string", Tag1("validate", <<"b">>)) >>)
          \* a struct whose first field has other types built and installed
          \* and whose second field has a tag that does not parse
          [] n = "lateBad" -> TypeDesc("struct", "", <<
                 StructField("P", "*cycle", Tag1("validate", <<"s","t","r","u","c","t">>)),
                 StructField("B", "string", Tag1("validate", <<")">>)) >>)
          \* type tree []tree, and a struct whose field validates the items of a
          \* tree by the tag that validates the tree
          [] n = "tree" -> TypeDesc("slice", "tree", <<>>)
          [] n = "forest" -> TypeDesc("struct", "", <<
                 StructField("Trees", "tree",
                     Tag1("validate", <<"i","t","e","m","s">>)
                     @@ Tag1("validateItems", <<"i","t","e","m","s">>)) >>)
          [] n = "**cycle" -> TypeDesc("ptr", "*cycle", <<>>)
          [] n = "selfAndTagValidator" -> TypeDesc("struct", "", <<
                 StructField("a", "int", Tag1("validate", <<"g","t","(","0",")">>)),
                 StructField("b", "int", NoTag) >>)
          [] n = "*selfAndTagValidator" -> TypeDesc("ptr", "selfAndTagValidator", <<>>)
          [] n = "selfValidatorPtrRecv" -> TypeDesc("struct", "", <<StructField("v", "int", NoTag)>>)
          [] n = "*selfValidatorPtrRecv" -> TypeDesc("ptr", "selfValidatorPtrRecv", <<>>)
          [] n = "warningValidator" -> TypeDesc("struct", "", <<
                 StructField("a", "int", NoTag),
                 StructField("b", "int", Tag1("validate", <<"g","t","(","3",")">>)),
                 StructField("C", "*InnerWarning", Tag1("validate", <<"s","t","r","u","c","t">>)) >>)
          [] n = "*warningValidator" -> TypeDesc("ptr", "warningValidator", <<>>)
          [] n = "InnerWarning" -> TypeDesc("struct", "", <<StructField("C", "int", NoTag)>>)
          [] n = "*InnerWarning" -> TypeDesc("ptr", "InnerWarning", <<>>)
          [] n = "string" -> TypeDesc("string", "", <<>>)
          [] n = "[]int" -> TypeDesc("slice", "int", <<>>)
          [] n = "[][]int" -> TypeDesc("slice", "[]int", <<>>)
          [] n = "map[string]int" -> TypeDesc("map", "int", <<>>)
          [] n = "*cycle" -> TypeDesc("ptr", "cycle", <<>>)
          [] n = "cycle" -> TypeDesc("struct", "", <<
                 StructField("c", "*cycle",
                     Tag1("validate", <<"n","o","t","n","i","l",","," ","s","t","r","u","c","t">>)) >>)
          [] n = "ages" -> TypeDesc("struct", "", <<
                 StructField("Ages", "[][]int",
                     Tag1("validate", <<"i","t","e","m","s","(","v","i",")">>)
                     @@ Tag1("vi", <<"i","t","e","m","s","(","v","i","2",")">>)
                     @@ Tag1("vi2", <<"g","t","(","3",")">>)) >>)
          [] n = "agesMap" -> TypeDesc("struct", "", <<
                 StructField("Ages", "map[string]int",
                     Tag1("validate", <<"i","t","e","m","s">>)
                     @@ Tag1("validateItems", <<"g","t","(","3",")">>)) >>)
          [] n = "interface {}" -> TypeDesc("interface", "", <<>>)
          [] n = "*interface {}" -> TypeDesc("ptr", "interface {}", <<>>)]

Kind(t) == Types[t].kind

\* The types that declare a Validate method, and the receiver it is declared
\* on: by value (func (f T) Validate) or by reference (func (f *T) Validate).
Receiver ==
    [n \in {"selfAndTagValidator", "selfValidatorPtrRecv", "warningValidator", "InnerWarning"} |->
        IF n = "selfAndTagValidator" THEN "value" ELSE "pointer"]

\* t.Implements(tValidator): Validate is in the method set of t, that is t
\* declares it by value, or t is a pointer to a type that declares it
Implements(t) ==
    \/ t \in DOMAIN Receiver /\ Receiver[t] = "value"
    \/ Kind(t) = "ptr" /\ Types[t].elem \in DOMAIN Receiver

\* reflect.PtrTo(t).Implements(tValidator)
PtrToImplements(t) == t \in DOMAIN Receiver

\* A value carries its type in ty and its Kind in k.
Invalid == [k |-> "invalid"]                       \* the zero reflect.Value
IntV(n) == [k |-> "int", ty |-> "int", n |-> n]
Int64V(n) == [k |-> "int", ty |-> "int64", n |-> n]    \* Kind Int64, compared like Int
StrV(str) == [k |-> "string", ty |-> "string", s |-> str]
StructV(typ, fields) == [k |-> "struct", ty |-> typ, f |-> fields]
NilPtr(typ) == [k |-> "ptr", ty |-> typ, nil |-> TRUE, elem |-> Invalid]
PtrTo(typ, v) == [k |-> "ptr", ty |-> typ, nil |-> FALSE, elem |-> v]
SliceV(typ, items) == [k |-> "slice", ty |-> typ, nil |-> FALSE, items |-> items]
\* order is the order in which this run's MapRange yields the keys
MapV(typ, order, m) == [k |-> "map", ty |-> typ, nil |-> FALSE, order |-> order, m |-> m]
\* an interface value holding v (Elem() yields v)
IfaceV(typ, v) == [k |-> "interface", ty |-> typ, nil |-> FALSE, elem |-> v]

IsValid(val) == val.k # "invalid"

\* Value.Elem() of a pointer or interface: the zero Value when it is nil
Elem(val) == IF val.nil THEN Invalid ELSE val.elem

RECURSIVE indirect(_)
indirect(val) ==
    IF val.k = "ptr" /\ ~val.nil THEN indirect(val.elem) ELSE val

Nilable == {"chan", "func", "interface", "map", "ptr", "slice", "unsafe.Pointer"}

RECURSIVE isItemsAllowed(_, _)
isItemsAllowed(t, name) ==
    IF Kind(t) \in {"array", "slice", "map"} THEN Nil
    ELSE IF Kind(t) = "ptr" THEN isItemsAllowed(Types[t].elem, name)
    ELSE InvalidTagArgumentsError(name, "only pointers to/or arrays, slices, and maps are supported")

isNotNilAllowed(t, name) ==
    IF Kind(t) \in Nilable THEN Nil
    ELSE InvalidTagArgumentsError(name, "only nil-able types are supported")

Sized == {"string", "array", "slice", "map"}

RECURSIVE isEmptyAllowed(_, _)
isEmptyAllowed(t, name) ==
    IF Kind(t) \in Sized THEN Nil
    ELSE IF Kind(t) = "ptr" THEN isEmptyAllowed(Types[t].elem, name)
    ELSE InvalidTagArgumentsError(name,
             "only pointers to/or strings, arrays, slices, and maps are supported")

RECURSIVE isNotEmptyAllowed(_, _)
isNotEmptyAllowed(t, name) ==
    IF Kind(t) \in Sized THEN Nil
    ELSE IF Kind(t) = "ptr" THEN isNotEmptyAllowed(Types[t].elem, name)
    ELSE InvalidTagArgumentsError(name,
             "only pointers to/or strings, arrays, slices, and maps are supported")

\* A string the program scans or converts is the sequence of its characters.
\* string(runes):
RECURSIVE Text(_)
Text(runes) == IF runes = <<>> THEN "" ELSE Head(runes) \o Text(Tail(runes))

Digits == <<"0", "1", "2", "3", "4", "5", "6", "7", "8", "9">>

IsDigit(c) == \E d \in 1..Len(Digits) : Digits[d] = c

\* the digits of arg after an optional sign
Unsigned(arg) == IF arg # <<>> /\ arg[1] \in {"+", "-"} THEN Tail(arg) ELSE arg

\* strconv.Atoi / strconv.ParseInt(arg, 10, 64) succeeds (the range error of
\* a number beyond 64 bits is out of reach of the arguments modelled)
IsInt(arg) == Unsigned(arg) # <<>> /\ \A k \in 1..Len(Unsigned(arg)) : IsDigit(Unsigned(arg)[k])

RECURSIVE Decimal(_, _)
Decimal(digits, acc) ==
    IF digits = <<>> THEN acc ELSE Decimal(Tail(digits),
                 10 * acc + (CHOOSE d \in 1..Len(Digits) : Digits[d] = Head(digits)) - 1)

Atoi(arg) == IF arg[1] = "-" THEN 0 - Decimal(Unsigned(arg), 0) ELSE Decimal(Unsigned(arg), 0)

RECURSIVE isLengthAllowed(_, _, _)
isLengthAllowed(t, name, args) ==
    IF Kind(t) = "ptr" THEN isLengthAllowed(Types[t].elem, name, args)
    ELSE IF Kind(t) \notin Sized
    THEN InvalidTagArgumentsError(name,
             "only pointers to/or strings, arrays, slices, and maps are supported")
    ELSE IF Len(args) # 1 THEN InvalidTagArgumentsError(name, "1 argument is required")
    ELSE IF ~IsInt(args[1]) THEN InvalidTagArgumentsError(name, "argument must be an integer")
    ELSE Nil

RECURSIVE tryParseString(_, _)
tryParseString(t, arg) ==
    IF Kind(t) = "int"
    THEN IF IsInt(arg) THEN [v |-> Int64V(Atoi(arg)), err |-> Nil]
         ELSE [v |-> Invalid, err |-> errorString("strconv.ParseInt: invalid syntax")]
    ELSE IF Kind(t) = "ptr" THEN tryParseString(Types[t].elem, arg)
    ELSE IF Kind(t) = "string" THEN [v |-> StrV(Text(arg)), err |-> Nil]
    ELSE [v |-> Invalid, err |-> newError("unsupported type")]

RECURSIVE isCmpAllowed(_, _, _)
isCmpAllowed(t, name, args) ==
    IF Len(args) # 1 THEN InvalidTagArgumentsError(name, "1 argument is required")
    ELSE IF Kind(t) = "int"
    THEN IF tryParseString(t, args[1]).err # Nil
         THEN InvalidTagArgumentsError(name, "argument must be an integer") ELSE Nil
    ELSE IF Kind(t) = "ptr" THEN isCmpAllowed(Types[t].elem, name, args)
    ELSE IF Kind(t) = "string" THEN Nil
    ELSE InvalidTagArgumentsError(name,
             "only pointers to/or strings, bools, and numbers are allowed")

-----------------------------------------------------------------------------
(* Validators.  Each constructor below builds the tree that stands for the *)
(* closure the Go function of the same name returns.                       *)

NoOpValidator == [kind |-> "noop"]

\* A caller-supplied ValidatorFunc (or Validate method) that returns (err, warn)
\* whatever the Context; id names it in `ran`.
ValidatorFunc(id, err, warn) == [kind |-> "func", id |-> id, err |-> err, warn |-> warn]

\* A caller-supplied ValidatorFunc whose outcome depends on the int it is run
\* against: tbl[n] is the [err, warn] it returns for the value n.
ValidatorFuncOf(id, tbl) == [kind |-> "funcOf", id |-> id, tbl |-> tbl]

AndAlwaysLoop(validators) == [kind |-> "and", validators |-> validators]

And(validators) ==
    IF Len(validators) = 0 THEN NoOpValidator
    ELSE IF Len(validators) = 1 THEN validators[1]
    ELSE [kind |-> "and", validators |-> validators]

OrJoinedAsAnd(validators) ==
    IF Len(validators) = 0 THEN NoOpValidator
    ELSE IF Len(validators) = 1 THEN validators[1]
    ELSE [kind |-> "and", validators |-> validators]

Or(validators) ==
    IF Len(validators) = 0 THEN NoOpValidator
    ELSE IF Len(validators) = 1 THEN validators[1]
    ELSE [kind |-> "or", validators |-> validators]

CustomMessage(v, msg) == [kind |-> "custom", validator |-> v, msg |-> msg]

Field(name, v) == [kind |-> "field", name |-> name, validator |-> v]

Items(v) == [kind |-> "items", validator |-> v]

NotNil == [kind |-> "notnil"]

\* other is the reflect.Value of the argument (an int64 or a string)
GreaterThan(other) == [kind |-> "gt", other |-> other]

In(values) == [kind |-> "in", values |-> values]

Empty == [kind |-> "empty"]

NotEmpty == [kind |-> "notempty"]

Length(len) == [kind |-> "len", len |-> len]

MaxLength(len) == [kind |-> "maxlen", len |-> len]

\* resolution.go, buildNonImplValidator: the closure returned for a pointer type
ptrValidator(v) == [kind |-> "ptr", validator |-> v]

\* resolution.go, buildNonImplValidator: the closure returned for an interface type
ifaceValidator == [kind |-> "iface"]

\* The closure delayedLookup returns.  Its captured variable v (the validator
\* it looked up on an earlier call) only saves the lookup: the Registry
\* answers every lookup of t with the same validator.
delayedLookup(t) == [kind |-> "delayed", t |-> t]

\* resolution.go, buildValidator: the closure that calls the Validate method
\* the type of the value declares, by value ("Copy receiver") or by reference
\* ("Pointer receiver")
selfValidator(recv) == [kind |-> "self", recv |-> recv]

-----------------------------------------------------------------------------
(* Context.  Parent is the chain of enclosing Contexts, outermost first;   *)
(* each is represented by the step that derived the next Context from it:  *)
(* a quoted field name (Field), an [index] or [key] (Items), "*" (pointer  *)
(* or interface dereference).                                              *)

Context(options, val) == [Options |-> options, Parent |-> <<>>, Value |-> val]

child(ctx, step, val) == [ctx EXCEPT !.Parent = Append(@, step), !.Value = val]

Res(err, warn, ran) == [err |-> err, warn |-> warn, ran |-> ran, panic |-> FALSE]

Panicked(ran) == [err |-> Nil, warn |-> Nil, ran |-> ran, panic |-> TRUE]

\* the pair mergeWarningsAndErrors returns, as the result of a check
Merged(warnings, errs, sep, ran) ==
    Res(mergeWarningsAndErrors(warnings, errs, sep).err,
        mergeWarningsAndErrors(warnings, errs, sep).warn, ran)

\* `ran` lists the validator invocations that returned without delegating to
\* another validator: which validator, in which Context, and the error it returned
Invoked(id, ctx, err) == <<[id |-> id, at |-> ctx.Parent, err |-> err]>>

quoted(name) == "\"" \o name \o "\""

-----------------------------------------------------------------------------
(* The Registry, the ResolutionContext and the struct-tag parser.          *)

\* Registry: the type -> Validator map, the catalog of factories (each name
\* mapped to the Go factory registered under it) and the tag name
Registry(validators, factories) ==
    [validators |-> validators, tagValidatorFactories |-> factories,
     structTagName |-> "validate"]

\* RegisterDefaultTagValidatorFactories (the factories the model covers), and a
\* factory the caller registered under "a" that accepts any arguments
DefaultTagValidatorFactories ==
    [n \in {"empty", "gt", "in", "items", "len", "maxlen", "notempty", "notnil", "struct", "a"} |->
        CASE n = "empty" -> "EmptyFactory"
          [] n = "gt" -> "GreaterThanFactory"
          [] n = "in" -> "InFactory"
          [] n = "items" -> "ItemsFactory"
          [] n = "len" -> "LengthFactory"
          [] n = "maxlen" -> "MaxLengthFactory"
          [] n = "notempty" -> "NotEmptyFactory"
          [] n = "notnil" -> "NotNilFactory"
          [] n = "struct" -> "StructFactory"
          [] n = "a" -> "CallerFactory"]

DefaultRegistry == Registry([t \in {} |-> NoOpValidator], DefaultTagValidatorFactories)

\* ResolutionContext.  Parent is the chain of enclosing ResolutionContexts,
\* outermost first, each represented by its Type.
ResolutionContext(parent, sf, t, registry) ==
    [Parent |-> parent, StructField |-> sf, Type |-> t, registry |-> registry]

NoStructField == StructField("", "", NoTag)

\* Registry.LookupTagValidatorFactory
LookupTagValidatorFactory(r, name) ==
    IF name \in DOMAIN r.tagValidatorFactories
    THEN [vf |-> r.tagValidatorFactories[name], err |-> Nil]
    ELSE [vf |-> "", err |-> ErrNoTagValidatorFactory(name)]

\* characters: the runes of a tag, and the 0 the scanner reads at the end
NUL == "<NUL>"
Letters == {"a", "b", "c", "d", "e", "f", "g", "h", "i", "j", "k", "l", "m",
            "n", "o", "p", "q", "r", "s", "t", "u", "v", "w", "x", "y", "z"}
IsIdent(c) == c = "_" \/ c \in Letters \/ IsDigit(c)
IsSpace(c) == c \in {" ", "\t"}

\* the state of parseTag before the first iteration of its loop
parseTagInit(tag) ==
    [tag |-> tag, i |-> 0, state |-> "none",
     validators |-> <<>>, validatorName |-> "", validatorArg |-> <<>>, validatorArgs |-> <<>>,
     calls |-> <<>>,      \* the Create calls made so far: [name, args]
     n |-> 0,             \* the iterations of the loop made so far
     err |-> Nil, done |-> FALSE]

RECURSIVE parseTagStep(_, _)
RECURSIVE Create(_, _, _, _)
RECURSIVE ParseStructTags(_, _)
RECURSIVE ctxLookupValidator(_, _)
RECURSIVE lookupValidator(_, _)
RECURSIVE buildValidator(_)

\* the loop's i++ left out
nextStays(ps) == ps

\* leave parseTag's loop when i has reached len(tag)+1
next(ps) == [ps EXCEPT !.i = @ + 1, !.done = (ps.i + 1 >= Len(ps.tag) + 1)]

stopped(ps, err) == [ps EXCEPT !.err = err, !.done = TRUE]

\* case none, c == ',' || c == 0, after vf.Create returned v
created(ps, v) ==
    IF v.err # Nil THEN stopped(ps, v.err)
    ELSE next([ps EXCEPT !.validators = Append(@, v.v), !.state = "none", !.validatorName = ""])

\* case none, c == ',' || c == 0, after LookupTagValidatorFactory returned vf
lookedUp(ctx, ps, vf) ==
    IF vf.err # Nil THEN stopped(ps, vf.err)
    ELSE created([ps EXCEPT !.calls = Append(@, [name |-> ps.validatorName,
                                                 args |-> ps.validatorArgs])],
                 Create(ctx, vf.vf, ps.validatorName, ps.validatorArgs))

\* case none, c == ',' || c == 0: the term is complete
endOfTerm(ctx, ps) ==
    lookedUp(ctx, ps, LookupTagValidatorFactory(ctx.registry, ps.validatorName))

\* one iteration of parseTag's loop, on the character at tag[i]
parseTagStep(ctx, ps) ==
    LET c == IF ps.i = Len(ps.tag) THEN NUL ELSE ps.tag[ps.i + 1]
        it == [ps EXCEPT !.n = @ + 1]
    IN
    CASE ps.state = "none" ->
           IF IsIdent(c) THEN next([it EXCEPT !.state = "name", !.validatorName = @ \o c])
           ELSE IF IsSpace(c) THEN next(it)
           ELSE IF c = "(" THEN next([it EXCEPT !.state = "args"])
           ELSE IF c = "," \/ c = NUL THEN endOfTerm(ctx, it)
           ELSE stopped(it, errorString("invalid character '" \o c \o "'"))
      [] ps.state = "name" ->
           IF IsIdent(c) THEN next([it EXCEPT !.validatorName = @ \o c])
           ELSE \* i--, then the loop's i++: the character is read again
                [it EXCEPT !.state = "none"]
      [] ps.state = "args" ->
           IF c = "," THEN next([it EXCEPT !.validatorArgs = Append(@, ps.validatorArg),
                                           !.validatorArg = <<>>])
           ELSE IF c = ")" THEN next([it EXCEPT !.validatorArgs = Append(@, ps.validatorArg),
                                                !.validatorArg = <<>>, !.state = "none"])
           ELSE next([it EXCEPT !.validatorArg = Append(@, c)])

RECURSIVE parseTagRun(_, _)
parseTagRun(ctx, ps) == IF ps.done THEN ps ELSE parseTagRun(ctx, parseTagStep(ctx, ps))

\* what parseTag returns once its loop has ended in state ps
parseTagResult(ps) ==
    IF ps.err # Nil THEN [v |-> NoOpValidator, err |-> ps.err]
    ELSE [v |-> And(ps.validators), err |-> Nil]

parseTag(ctx, tag) == parseTagResult(parseTagRun(ctx, parseTagInit(tag)))

\* strings.SplitN(tag, "~", 2) and strings.Split(def, "|"), on sequences of characters
IndexOf(tag, c) ==
    IF \E k \in 1..Len(tag) : tag[k] = c
    THEN CHOOSE k \in 1..Len(tag) : tag[k] = c /\ \A j \in 1..(k - 1) : tag[j] # c
    ELSE 0

RECURSIVE Split(_, _)
Split(tag, c) ==
    IF IndexOf(tag, c) = 0 THEN <<tag>>
    ELSE <<SubSeq(tag, 1, IndexOf(tag, c) - 1)>>
         \o Split(SubSeq(tag, IndexOf(tag, c) + 1, Len(tag)), c)

SplitN2(tag, c) ==
    IF IndexOf(tag, c) = 0 THEN <<tag>>
    ELSE <<SubSeq(tag, 1, IndexOf(tag, c) - 1), SubSeq(tag, IndexOf(tag, c) + 1, Len(tag))>>

StructTagParseResult(v, msg) == [Validator |-> v, CustomMessage |-> msg, err |-> Nil]

ParseFailed(err) == [Validator |-> NoOpValidator, CustomMessage |-> "", err |-> err]

\* StructField.Tag.Lookup(tagName) found a tag to parse
HasTag(ctx, tagName) ==
    /\ tagName \in DOMAIN ctx.StructField.Tag
    /\ ctx.StructField.Tag[tagName] # <<"-">>

defAndMessage(ctx, tagName) == SplitN2(ctx.StructField.Tag[tagName], "~")

\* DefaultStructTagParser: the loop over parts[k..], with the validators so far
RECURSIVE parseParts(_, _, _, _)

\* the rest of the loop once parseTag returned r for parts[k]
partParsed(ctx, parts, k, validators, r) ==
    IF r.err # Nil THEN [vs |-> validators, err |-> r.err]
    ELSE parseParts(ctx, parts, k + 1, Append(validators, r.v))

parseParts(ctx, parts, k, validators) ==
    IF k > Len(parts) THEN [vs |-> validators, err |-> Nil]
    ELSE partParsed(ctx, parts, k, validators, parseTag(ctx, parts[k]))

\* DefaultStructTagParser after its loop returned r
partsParsed(dm, r) ==
    IF r.err # Nil THEN ParseFailed(r.err)
    ELSE StructTagParseResult(Or(r.vs), IF Len(dm) = 2 THEN Text(dm[2]) ELSE "")

DefaultStructTagParser(ctx, tagName) ==
    IF ~HasTag(ctx, tagName) THEN StructTagParseResult(NoOpValidator, "")
    ELSE partsParsed(defAndMessage(ctx, tagName),
                     parseParts(ctx, Split(defAndMessage(ctx, tagName)[1], "|"), 1, <<>>))

ParseStructTags(ctx, tagName) == DefaultStructTagParser(ctx, tagName)

Built(v) == [v |-> v, err |-> Nil]

\* no call has returned anything to the call on top of the stack
NoRet == [has |-> FALSE, v |-> NoOpValidator, err |-> Nil, msg |-> ""]

\* the goroutines of the program
Goroutines == {"g1", "g2"}

\* a goroutine that has called nothing yet: the type it looks up (t), what the
\* lookup returned (res), the types it has called buildValidator for (built),
\* the closure it invokes in a check (c) and how the check ended (checked)
Idle == [stack |-> <<>>, ret |-> NoRet, t |-> "", res |-> NoRet, built |-> {},
         c |-> [t |-> "", at |-> <<>>], checked |-> ""]

\* the zero sync.RWMutex
Unlocked == [readers |-> {}, writer |-> {}, pending |-> {}]

\* one goroutine runs, no other has started, and nobody holds Registry.lock
OneGoroutine ==
    /\ running = "g1"
    /\ goroutines = [g \in Goroutines |-> Idle]
    /\ lock = Unlocked

\* no resolution is in progress and delayedLookup has made no closure
NoResolution ==
    /\ stack = <<>> /\ ret = NoRet /\ closures = {} /\ target = [t |-> "", at |-> <<>>]
    /\ OneGoroutine

NotBuilt(err) == [v |-> NoOpValidator, err |-> err]

\* `if err != nil { return nil, err }` and then the validator
Gated(err, v) == IF err # Nil THEN NotBuilt(err) ELSE Built(v)

\* `v, err := ...; if err != nil { return nil, err }` and then what is made of v
IfBuilt(r, then(_)) == IF r.err # Nil THEN NotBuilt(r.err) ELSE then(r.v)

\* InFactory: the loop over args[i..]
RECURSIVE inValues(_, _, _, _, _)
inValues(ctx, name, args, i, vs) ==
    IF i > Len(args) THEN Built(In(vs))
    ELSE IF isCmpAllowed(ctx.Type, name, <<args[i]>>) # Nil
    THEN NotBuilt(isCmpAllowed(ctx.Type, name, <<args[i]>>))
    ELSE inValues(ctx, name, args, i + 1, Append(vs, tryParseString(ctx.Type, args[i]).v))

\* ItemsFactory after ParseStructTags returned stpr
itemsOf(stpr) ==
    IF stpr.err # Nil THEN NotBuilt(stpr.err)
    ELSE IF stpr.CustomMessage # ""
    THEN Built(Items(CustomMessage(stpr.Validator, stpr.CustomMessage)))
    ELSE Built(Items(stpr.Validator))

ItemsFactory(ctx, name, args) ==
    IF isItemsAllowed(ctx.Type, name) # Nil THEN NotBuilt(isItemsAllowed(ctx.Type, name))
    ELSE itemsOf(ParseStructTags([ctx EXCEPT !.Type = Types[ctx.Type].elem],
                                 IF Len(args) = 1 THEN Text(args[1]) ELSE "validateItems"))

\* TagValidatorFactory.Create, by the factory registered
Create(ctx, vf, name, args) ==
    CASE vf = "EmptyFactory" -> Gated(isEmptyAllowed(ctx.Type, name), Empty)
      [] vf = "NotEmptyFactory" -> Gated(isNotEmptyAllowed(ctx.Type, name), NotEmpty)
      [] vf = "NotNilFactory" -> Gated(isNotNilAllowed(ctx.Type, name), NotNil)
      [] vf = "LengthFactory" ->
           Gated(isLengthAllowed(ctx.Type, name, args), Length(Atoi(args[1])))
      [] vf = "MaxLengthFactory" ->
           Gated(isLengthAllowed(ctx.Type, name, args), MaxLength(Atoi(args[1])))
      [] vf = "GreaterThanFactory" ->
           Gated(isCmpAllowed(ctx.Type, name, args),
                 GreaterThan(tryParseString(ctx.Type, args[1]).v))
      [] vf = "InFactory" -> inValues(ctx, name, args, 1, <<>>)
      [] vf = "ItemsFactory" -> ItemsFactory(ctx, name, args)
      [] vf = "StructFactory" -> ctxLookupValidator(ctx, ctx.Type)
      [] vf = "CallerFactory" -> Built(ValidatorFunc(name, Nil, Nil))

\* ResolutionContext.LookupValidator
ctxLookupValidator(ctx, t) ==
    IF \E k \in 1..Len(ctx.Parent) : ctx.Parent[k] = t
    THEN Built(delayedLookup(t))
    ELSE lookupValidator(ctx.registry,
                         [ctx EXCEPT !.Parent = Append(@, ctx.Type), !.Type = t])

\* buildStructValidator: the validator of field sf, given its parsed tag
fieldValidator(sf, stpr) ==
    IF Len(stpr.CustomMessage) > 0
    THEN CustomMessage(Field(sf.Name, stpr.Validator), stpr.CustomMessage)
    ELSE Field(sf.Name, stpr.Validator)

\* buildStructValidator: the loop over the fields from the i-th
RECURSIVE structFields(_, _, _)

\* the rest of the loop once ParseStructTags returned stpr for the i-th field
fieldParsed(ctx, i, validators, stpr) ==
    IF stpr.err # Nil THEN NotBuilt(stpr.err)
    ELSE structFields(ctx, i + 1,
                      Append(validators, fieldValidator(Types[ctx.Type].fields[i], stpr)))

structFields(ctx, i, validators) ==
    IF i > Len(Types[ctx.Type].fields) THEN Built(And(validators))
    ELSE fieldParsed(ctx, i, validators,
             ParseStructTags([ctx EXCEPT !.Parent = Append(@, ctx.Type),
                                         !.Type = Types[ctx.Type].fields[i].Type,
                                         !.StructField = Types[ctx.Type].fields[i]],
                             ctx.registry.structTagName))

buildStructValidator(ctx) == structFields(ctx, 1, <<>>)

buildNonImplValidator(ctx) ==
    CASE Kind(ctx.Type) = "struct" -> buildStructValidator(ctx)
      [] Kind(ctx.Type) = "ptr" ->
           IfBuilt(ctxLookupValidator(ctx, Types[ctx.Type].elem),
                   LAMBDA v : Built(ptrValidator(v)))
      [] Kind(ctx.Type) = "interface" -> Built(ifaceValidator)
      [] OTHER -> NotBuilt(ErrNoValidator(ctx.Type))

\* buildValidator, lines 49-68
validatorImpl(t) ==
    IF Implements(t) /\ PtrToImplements(t) THEN selfValidator("value")
    ELSE IF PtrToImplements(t) THEN selfValidator("pointer")
    ELSE NoOpValidator

buildValidator(ctx) ==
    IfBuilt(buildNonImplValidator(ctx),
            LAMBDA nonImplValidator : Built(And(<<validatorImpl(ctx.Type), nonImplValidator>>)))

\* Registry.lookupValidator: the entry of the map, or the validator built.
\* (The install of a built validator is left out here: a later lookup builds
\* the same validator again instead of reading it.)
lookupValidator(r, ctx) ==
    IF ctx.Type \in DOMAIN r.validators
    THEN IF r.validators[ctx.Type] = Nil THEN NotBuilt(ErrNoValidator(ctx.Type))
         ELSE Built(r.validators[ctx.Type])
    ELSE buildValidator(ctx)

\* Registry.LookupValidator
LookupValidator(r, t) == lookupValidator(r, ResolutionContext(<<>>, NoStructField, t, r))

-----------------------------------------------------------------------------
(* Validator.Validate(ctx), by kind of validator.                          *)

RECURSIVE Validate(_, _)
RECURSIVE AndLoop(_, _, _, _, _, _)
RECURSIVE OrLoop(_, _, _, _, _, _)
RECURSIVE ItemsSlice(_, _, _, _, _, _)
RECURSIVE ItemsMap(_, _, _, _, _, _)

\* And: the loop over validators[i..], with errs, warnings collected so far
AndLoop(validators, ctx, i, errs, warnings, ran) ==
    IF i > Len(validators)
    THEN Merged(warnings, errs, "and", ran)
    ELSE
      LET r == Validate(validators[i], ctx)
          ran2 == ran \o r.ran
          errs2 == IF r.err # Nil THEN Append(errs, r.err) ELSE errs
          warnings2 == IF r.warn # Nil THEN Append(warnings, r.warn) ELSE warnings
      IN  IF r.panic THEN Panicked(ran2)
          ELSE IF r.err # Nil /\ ctx.Options.StopOnError
          THEN \* break, before the warning of this child is looked at
               Merged(warnings, errs2, "and", ran2)
          ELSE IF r.warn # Nil /\ shouldStopOnWarnings(ctx.Options)
          THEN Merged(warnings2, errs2, "and", ran2)
          ELSE AndLoop(validators, ctx, i + 1, errs2, warnings2, ran2)

OrLoopErrOnly(validators, ctx, i, errs, warnings, ran) ==
    IF i > Len(validators)
    THEN Merged(warnings, errs, "or", ran)
    ELSE
      LET r == Validate(validators[i], ctx)
          ran2 == ran \o r.ran
      IN  IF r.panic THEN Panicked(ran2)
          ELSE IF r.err = Nil THEN Res(Nil, Nil, ran2)
          ELSE OrLoop(validators, ctx, i + 1, Append(errs, r.err),
                      IF r.warn # Nil THEN Append(warnings, r.warn) ELSE warnings, ran2)

OrLoopStopOnError(validators, ctx, i, errs, warnings, ran) ==
    IF i > Len(validators)
    THEN Merged(warnings, errs, "or", ran)
    ELSE
      LET r == Validate(validators[i], ctx)
          ran2 == ran \o r.ran
          errs2 == IF r.err # Nil THEN Append(errs, r.err) ELSE errs
          warnings2 == IF r.warn # Nil THEN Append(warnings, r.warn) ELSE warnings
      IN  IF r.panic THEN Panicked(ran2)
          ELSE IF r.err = Nil /\ r.warn = Nil THEN Res(Nil, Nil, ran2)
          ELSE IF r.err # Nil /\ ctx.Options.StopOnError
          THEN Merged(warnings2, errs2, "or", ran2)
          ELSE OrLoop(validators, ctx, i + 1, errs2, warnings2, ran2)

\* Or: the loop over validators[i..]
OrLoop(validators, ctx, i, errs, warnings, ran) ==
    IF i > Len(validators)
    THEN Merged(warnings, errs, "or", ran)
    ELSE
      LET r == Validate(validators[i], ctx)
          ran2 == ran \o r.ran
      IN  IF r.panic THEN Panicked(ran2)
          ELSE IF r.err = Nil /\ r.warn = Nil THEN Res(Nil, Nil, ran2)
          ELSE OrLoop(validators, ctx, i + 1,
                      IF r.err # Nil THEN Append(errs, r.err) ELSE errs,
                      IF r.warn # Nil THEN Append(warnings, r.warn) ELSE warnings, ran2)

\* Items, case reflect.Array, reflect.Slice: the loop from element i (1-based
\* here, printed 0-based).  The `break` under `case *Error:` leaves the type
\* switch, not the for loop, so after an Error the warning is still looked at
\* and the loop goes on; only the `break` of the warning branch leaves the loop.
ItemsSlice(validator_, ctx, i, errs, warnings, ran) ==
    LET val == indirect(ctx.Value) IN
    IF i > Len(val.items)
    THEN Merged(warnings, errs, "and", ran)
    ELSE
      LET idx == "[" \o ToString(i - 1) \o "]"
          r == Validate(validator_, child(ctx, idx, val.items[i]))
          ran2 == ran \o r.ran
          errs2 == IF r.err # Nil THEN Append(errs, newError(idx \o " " \o r.err.msg)) ELSE errs
          warnings2 == IF r.warn # Nil
                       THEN Append(warnings, newError(idx \o " " \o r.warn.msg)) ELSE warnings
      IN  IF r.panic THEN Panicked(ran2)
          ELSE IF r.err # Nil /\ r.err.t # "*Error" THEN Res(r.err, r.warn, ran2)
          ELSE IF r.warn # Nil /\ shouldStopOnWarnings(ctx.Options)
          THEN Merged(warnings2, errs2, "and", ran2)
          ELSE ItemsSlice(validator_, ctx, i + 1, errs2, warnings2, ran2)

\* Items, case reflect.Map: the loop from the i-th key MapRange yields
ItemsMap(validator_, ctx, i, errs, warnings, ran) ==
    LET val == indirect(ctx.Value) IN
    IF i > Len(val.order)
    THEN Merged(warnings, errs, "and", ran)
    ELSE
      LET key == "[" \o val.order[i] \o "]"
          r == Validate(validator_, child(ctx, key, val.m[val.order[i]]))
          ran2 == ran \o r.ran
          errs2 == IF r.err # Nil THEN Append(errs, newError(key \o " " \o r.err.msg)) ELSE errs
          warnings2 == IF r.warn # Nil
                       THEN Append(warnings, newError(key \o " " \o r.warn.msg)) ELSE warnings
      IN  IF r.panic THEN Panicked(ran2)
          ELSE IF r.err # Nil /\ r.err.t # "*Error" THEN Res(r.err, r.warn, ran2)
          ELSE IF r.warn # Nil /\ shouldStopOnWarnings(ctx.Options)
          THEN Merged(warnings2, errs2, "and", ran2)
          ELSE ItemsMap(validator_, ctx, i + 1, errs2, warnings2, ran2)

ValidateItems(v, ctx) ==
    LET val == indirect(ctx.Value) IN
    IF val.k \in {"array", "slice"} THEN ItemsSlice(v.validator, ctx, 1, <<>>, <<>>, <<>>)
    ELSE IF val.k = "map" THEN ItemsMap(v.validator, ctx, 1, <<>>, <<>>, <<>>)
    ELSE IF ~IsValid(ctx.Value) THEN Panicked(<<>>)       \* Value.Type() of the zero Value
    ELSE Res(isItemsAllowed(ctx.Value.ty, "items"), Nil, <<>>)

ValidateCustomMessage(v, ctx) ==
    LET r == Validate(v.validator, ctx) IN
    IF r.panic THEN r
    ELSE IF r.err # Nil /\ r.err.t = "*Error" THEN Res(newError(v.msg), r.warn, r.ran)
    ELSE Res(r.err, r.warn, r.ran)

ValidateFieldNoPrefix(v, ctx) ==
    IF ~IsValid(ctx.Value) THEN Res(Nil, Nil, <<>>)
    ELSE IF ctx.Value.k # "struct" THEN Panicked(<<>>)
    ELSE IF v.name \notin DOMAIN ctx.Value.f
    THEN Res(UnknownFieldError(ctx.Value.ty, v.name), Nil,
             Invoked("field", ctx, UnknownFieldError(ctx.Value.ty, v.name)))
    ELSE Validate(v.validator, child(ctx, quoted(v.name), ctx.Value.f[v.name]))

ValidateField(v, ctx) ==
    IF ~IsValid(ctx.Value) THEN Res(Nil, Nil, <<>>)
    ELSE IF ctx.Value.k # "struct" THEN Panicked(<<>>)    \* Value.FieldByName of a non-struct
    ELSE IF v.name \notin DOMAIN ctx.Value.f
    THEN Res(UnknownFieldError(ctx.Value.ty, v.name), Nil,
             Invoked("field", ctx, UnknownFieldError(ctx.Value.ty, v.name)))
    ELSE
      LET r == Validate(v.validator, child(ctx, quoted(v.name), ctx.Value.f[v.name])) IN
      IF r.panic THEN r
      ELSE IF r.err # Nil /\ r.err.t = "*Error"
      THEN Res(newError(quoted(v.name) \o " " \o r.err.msg), r.warn, r.ran)
      ELSE Res(r.err, r.warn, r.ran)

ValidateNotNil(v, ctx) ==
    IF ctx.Value.k \in Nilable
    THEN LET err == IF ctx.Value.nil THEN newError("must not be nil") ELSE Nil
         IN  Res(err, Nil, Invoked("notnil", ctx, err))
    ELSE IF ~IsValid(ctx.Value) THEN Panicked(<<>>)       \* Value.Type() of the zero Value
    ELSE Res(isNotNilAllowed(ctx.Value.ty, "notnil"), Nil,
             Invoked("notnil", ctx, isNotNilAllowed(ctx.Value.ty, "notnil")))

\* cmp(val, other): the ordering, or the error.  Strings are only compared for
\* equality in the model (Equal, In): the sign for unequal strings is not modelled.
cmp(val, other) ==
    IF val.k = "int" /\ other.k = "int"
    THEN [r |-> IF val.n < other.n THEN -1 ELSE IF val.n = other.n THEN 0 ELSE 1, err |-> Nil]
    ELSE IF val.k = "string" /\ other.k = "string"
    THEN [r |-> IF val.s = other.s THEN 0 ELSE 1, err |-> Nil]
    ELSE [r |-> 0, err |-> errorString("incompatible types for comparision: "
                                        \o val.ty \o " and " \o other.ty)]

fmtV(x) == IF x.k = "int" THEN ToString(x.n) ELSE x.s

RECURSIVE fmtVs(_)
fmtVs(xs) == IF Len(xs) = 0 THEN ""
             ELSE IF Len(xs) = 1 THEN fmtV(xs[1])
             ELSE fmtV(xs[1]) \o " " \o fmtVs(Tail(xs))

\* In: the loop over values[i..]
RECURSIVE inLoop(_, _, _)
inLoop(val, values, i) ==
    IF i > Len(values) THEN newError("must be one of [" \o fmtVs(values) \o "]")
    ELSE IF cmp(val, values[i]).err # Nil THEN cmp(val, values[i]).err
    ELSE IF cmp(val, values[i]).r = 0 THEN Nil
    ELSE inLoop(val, values, i + 1)

ValidateIn(v, ctx) ==
    LET val == indirect(ctx.Value)
        err == IF val.k = "ptr" THEN newError("must be one of [" \o fmtVs(v.values) \o "]")
               ELSE inLoop(val, v.values, 1)
    IN  IF ~IsValid(val) /\ Len(v.values) > 0 THEN Panicked(<<>>)
        ELSE Res(err, Nil, Invoked("in", ctx, err))

\* val.Len() of a string, slice or map
LenOf(val) == IF val.k = "string" THEN Len(val.s)
              ELSE IF val.k = "map" THEN Len(val.order) ELSE Len(val.items)

\* Empty, NotEmpty, Length, MaxLength: `bad` tells whether the size is refused
ValidateSized(ctx, id, bad(_), msg, allowed(_)) ==
    LET val == indirect(ctx.Value)
        err == IF val.k \in Sized THEN (IF bad(LenOf(val)) THEN newError(msg) ELSE Nil)
               ELSE IF val.k = "ptr" THEN newError(msg)
               ELSE allowed(val.ty)
    IN  IF ~IsValid(val) THEN Panicked(<<>>)              \* val.Type() of the zero Value
        ELSE Res(err, Nil, Invoked(id, ctx, err))

ValidateEmpty(v, ctx) ==
    ValidateSized(ctx, "empty", LAMBDA n : n # 0, "must be empty",
                  LAMBDA t : isEmptyAllowed(t, "empty"))

ValidateNotEmpty(v, ctx) ==
    ValidateSized(ctx, "notempty", LAMBDA n : n = 0, "must not be empty",
                  LAMBDA t : isNotEmptyAllowed(t, "notempty"))

ValidateLength(v, ctx) ==
    ValidateSized(ctx, "len", LAMBDA n : n # v.len, "must be of length " \o ToString(v.len),
                  LAMBDA t : isLengthAllowed(t, "length", <<>>))

ValidateMaxLength(v, ctx) ==
    ValidateSized(ctx, "maxlen", LAMBDA n : n > v.len, "must have max length " \o ToString(v.len),
                  LAMBDA t : isLengthAllowed(t, "maxlength", <<>>))

ValidateGreaterThan(v, ctx) ==
    LET val == indirect(ctx.Value)
        failed == newError("must be greater than " \o fmtV(v.other))
        err == IF val.k = "ptr" THEN failed
               ELSE IF cmp(val, v.other).err # Nil THEN cmp(val, v.other).err
               ELSE IF cmp(val, v.other).r <= 0 THEN failed
               ELSE Nil
    IN  IF ~IsValid(val) THEN Panicked(<<>>)              \* val.Type() in cmp
        ELSE Res(err, Nil, Invoked("gt", ctx, err))

\* buildNonImplValidator, case reflect.Ptr: Value.Elem() panics unless the
\* value is a pointer or an interface
ValidatePtr(v, ctx) ==
    IF ctx.Value.k \notin {"ptr", "interface"} THEN Panicked(<<>>)
    ELSE Validate(v.validator, child(ctx, "*", Elem(ctx.Value)))

\* a check-time lookup returned l: its error, or the check by the validator
\* found, in Context cctx
ValidateFound(l, id, ctx, cctx) ==
    IF l.err # Nil THEN Res(l.err, Nil, Invoked(id, ctx, l.err))
    ELSE Validate(l.v, cctx)

\* buildNonImplValidator, case reflect.Interface
ValidateIface(v, ctx) ==
    IF ctx.Value.k \notin {"ptr", "interface"} THEN Panicked(<<>>)
    ELSE IF ~IsValid(Elem(ctx.Value)) THEN Panicked(<<>>)   \* val.Type() of the zero Value
    ELSE ValidateFound(LookupValidator(ctx.Options.Registry, Elem(ctx.Value).ty),
                       "interface", ctx, child(ctx, "*", Elem(ctx.Value)))

\* validate_test.go: what the Validate method of the type of val returns
SelfCheck(val) ==
    CASE val.ty = "selfAndTagValidator" ->
           [err |-> IF val.f["b"].n <= 5 THEN errorString("b must be greater than 5") ELSE Nil,
            warn |-> Nil]
      [] val.ty = "selfValidatorPtrRecv" ->
           [err |-> IF val.f["v"].n > 3 THEN errorString("AHAHAH") ELSE Nil, warn |-> Nil]
      [] val.ty = "warningValidator" ->
           [err |-> Nil,
            warn |-> IF val.f["a"].n < 3
                     THEN errorString("a should not be less than 3 but that is ok") ELSE Nil]
      [] val.ty = "InnerWarning" ->
           [err |-> Nil,
            warn |-> IF val.f["C"].n < 3
                     THEN errorString("c should not be less than 3 but that is ok") ELSE Nil]

\* buildValidator, the two closures: Value.Interface() (by value) and
\* Value.Type() (by reference, of a Value that is not addressable) panic on
\* the zero Value, the type assertion on a value without the method
ValidateSelf(v, ctx) ==
    IF ~IsValid(ctx.Value) THEN Panicked(<<>>)
    ELSE IF ctx.Value.ty \notin DOMAIN Receiver THEN Panicked(<<>>)
    ELSE Res(SelfCheck(ctx.Value).err, SelfCheck(ctx.Value).warn,
             Invoked("self", ctx, SelfCheck(ctx.Value).err))

ValidateDelayed(v, ctx) ==
    ValidateFound(LookupValidator(ctx.Options.Registry, v.t), "delayedLookup", ctx, ctx)

Validate(v, ctx) ==
    CASE v.kind = "noop"    -> Res(Nil, Nil, <<>>)
      [] v.kind = "func"    -> Res(v.err, v.warn, Invoked(v.id, ctx, v.err))
      [] v.kind = "funcOf"  -> Res(v.tbl[ctx.Value.n].err, v.tbl[ctx.Value.n].warn,
                                   Invoked(v.id, ctx, v.tbl[ctx.Value.n].err))
      [] v.kind = "and"     -> AndLoop(v.validators, ctx, 1, <<>>, <<>>, <<>>)
      [] v.kind = "or"      -> OrLoop(v.validators, ctx, 1, <<>>, <<>>, <<>>)
      [] v.kind = "custom"  -> ValidateCustomMessage(v, ctx)
      [] v.kind = "field"   -> ValidateField(v, ctx)
      [] v.kind = "items"   -> ValidateItems(v, ctx)
      [] v.kind = "notnil"  -> ValidateNotNil(v, ctx)
      [] v.kind = "gt"      -> ValidateGreaterThan(v, ctx)
      [] v.kind = "in"      -> ValidateIn(v, ctx)
      [] v.kind = "empty"   -> ValidateEmpty(v, ctx)
      [] v.kind = "notempty" -> ValidateNotEmpty(v, ctx)
      [] v.kind = "len"     -> ValidateLength(v, ctx)
      [] v.kind = "maxlen"  -> ValidateMaxLength(v, ctx)
      [] v.kind = "ptr"     -> ValidatePtr(v, ctx)
      [] v.kind = "iface"   -> ValidateIface(v, ctx)
      [] v.kind = "delayed" -> ValidateDelayed(v, ctx)
      [] v.kind = "self"    -> ValidateSelf(v, ctx)

-----------------------------------------------------------------------------
(* The checks.  Init draws the inputs of one check; the action of the      *)
(* operation under test builds the validator and runs it once.             *)

\* What the i-th caller-supplied validator of a run returns: no Error, a data
\* Error (*Error) or a usage error (another error type), with or without a Warning
ErrKinds == {"none", "data", "usage"}

errOf(i, e) ==
    IF e = "none" THEN Nil
    ELSE IF e = "data" THEN newError("e" \o ToString(i))
    ELSE errorString("u" \o ToString(i))

warnOf(i, w) == IF w THEN newWarning("w" \o ToString(i)) ELSE Nil

fid(i) == "f" \o ToString(i)

Outcomes(i) == {[err |-> errOf(i, e), warn |-> warnOf(i, w)] : e \in ErrKinds, w \in BOOLEAN}

Leaf(i, o) == ValidatorFunc(fid(i), o.err, o.warn)

\* every sequence of n caller-supplied validators, the i-th named f<i>
LeafSeqs(n) ==
    {[i \in 1..n |-> Leaf(i, os[i])] :
        os \in {f \in [1..n -> UNION {Outcomes(i) : i \in 1..n}] :
                   \A i \in 1..n : f[i] \in Outcomes(i)}}

\* validate.go, defaultOptions and the Option functions
OptionSets(registry) ==
    {[Registry |-> registry, StopOnError |-> s, WarningsAsErrors |-> w] :
        s \in BOOLEAN, w \in BOOLEAN}

NotRun == Res(Nil, Nil, <<>>)

InitAndOr ==
    /\ op \in {"And", "Or"}
    /\ opts \in OptionSets(DefaultRegistry)
    /\ children \in UNION {LeafSeqs(n) : n \in 0..MaxChildren}
                    \cup {<<NotNil>>, <<GreaterThan(IntV(0))>>}
    /\ value \in {IntV(0), NilPtr("*cycle")}

\* a slice <<1, .., n>> or a map of n keys (in any iteration order), and an
\* inner validator that returns any outcome for each element
Keys == <<"uno", "dos", "tres", "quatro", "cinco">>

Perms(n) ==
    {o \in [1..n -> {Keys[i] : i \in 1..n}] : \A a, b \in 1..n : a # b => o[a] # o[b]}

ItemValues ==
    {SliceV("[]int", [i \in 1..n |-> IntV(i)]) : n \in 0..MaxItems}
    \cup UNION {{MapV("map[string]int", order,
                      [k \in {Keys[i] : i \in 1..n} |-> IntV(CHOOSE i \in 1..n : Keys[i] = k)]) :
                    order \in Perms(n)} : n \in 0..(MaxItems - 1)}

InitItems ==
    /\ op = "Items"
    /\ opts \in OptionSets(DefaultRegistry)
    /\ value \in ItemValues
    /\ \E n \in 0..MaxItems :
         /\ n = (IF value.k = "slice" THEN Len(value.items) ELSE Len(value.order))
         /\ children \in {<<ValidatorFuncOf("f", [i \in 1..n |-> ls[i]])>> :
                             ls \in {f \in [1..n -> UNION {Outcomes(i) : i \in 1..n}] :
                                        \A i \in 1..n : f[i] \in Outcomes(i)}}

\* a struct with one field c, and a pointer to it
aStruct == StructV("cycle", [f \in {"c"} |-> NilPtr("*cycle")])

\* validate_test.go: the message of `notempty~AHAHAHAH`
customMsg == "AHAHAHAH"

\* inner validators for CustomMessage: caller-supplied validators alone, under
\* And / Or, under Field (of a field that exists, or not) and under the pointer
\* wrapper; a comparison of an incomparable value; a failing check-time lookup
InnerValidators(val) ==
    IF val.k = "struct"
    THEN {ls[1] : ls \in LeafSeqs(1)}
         \cup {And(ls) : ls \in LeafSeqs(2)}
         \cup {Or(ls) : ls \in LeafSeqs(2)}
         \cup {Field("c", ls[1]) : ls \in LeafSeqs(1)}
         \cup {Field("zz", ls[1]) : ls \in LeafSeqs(1)}
         \cup {And(<<Field("zz", ls[1]), ls[2]>>) : ls \in LeafSeqs(2)}
         \cup {GreaterThan(IntV(0)), And(<<NoOpValidator, GreaterThan(IntV(0))>>),
               Field("c", NotNil), Field("c", And(<<NotNil, GreaterThan(IntV(0))>>))}
    ELSE {ptrValidator(Field("c", ls[1])) : ls \in LeafSeqs(1)}
         \cup {And(<<NoOpValidator, ptrValidator(Field("zz", ls[1]))>>) : ls \in LeafSeqs(1)}
         \cup {ptrValidator(delayedLookup("cycle")), ifaceValidator,
               And(<<NoOpValidator, ifaceValidator>>)}

InitCustomMessage ==
    /\ op = "CustomMessage"
    /\ opts \in OptionSets(DefaultRegistry)
    /\ value \in {aStruct, PtrTo("*cycle", aStruct)}
    /\ children \in {<<v>> : v \in InnerValidators(value)}

\* cycle{c: &cycle{c: ... &cycle{c: nil}}}, with d pointers followed
RECURSIVE CycleV(_)
CycleV(d) ==
    StructV("cycle", [f \in {"c"} |-> IF d = 0 THEN NilPtr("*cycle")
                                       ELSE PtrTo("*cycle", CycleV(d - 1))])

SeqsUpTo(S, n) == UNION {[1..m -> S] : m \in 0..n}

AgesValues ==
    {StructV("ages", [f \in {"Ages"} |-> SliceV("[][]int", outer)]) :
        outer \in SeqsUpTo({SliceV("[]int", inner) : inner \in SeqsUpTo({IntV(3), IntV(4)}, MaxItems - 1)},
                           MaxItems - 1)}

AgesMapValues ==
    UNION {{StructV("agesMap", [f \in {"Ages"} |-> MapV("map[string]int", order, m)]) :
               order \in Perms(n), m \in [{Keys[i] : i \in 1..n} -> {IntV(3), IntV(4)}]} :
           n \in 0..(MaxItems - 1)}

\* validate_test.go: values of the types with a Validate method
SelfValues ==
    {StructV("selfAndTagValidator", [f \in {"a", "b"} |-> IF f = "a" THEN IntV(a) ELSE IntV(b)]) :
        a \in {-1, 3}, b \in {0, 8}}
    \cup {StructV("selfValidatorPtrRecv", [f \in {"v"} |-> IntV(n)]) : n \in {0, 4}}
    \cup {StructV("warningValidator",
                  [f \in {"a", "b", "C"} |->
                      IF f = "a" THEN IntV(a) ELSE IF f = "b" THEN IntV(b) ELSE c]) :
             a \in {2, 5}, b \in {2, 5},
             c \in {NilPtr("*InnerWarning")}
                   \cup {PtrTo("*InnerWarning", StructV("InnerWarning", [f \in {"C"} |-> IntV(n)])) :
                            n \in {1, 6}}}

\* Validate(obj, options...) of a struct whose validator is built from its tags
\* and its Validate method, of a pointer to one and of a nil pointer
InitValidate ==
    /\ op = "Validate"
    /\ opts \in OptionSets(DefaultRegistry)
    /\ value \in {CycleV(d) : d \in 0..MaxDepth} \cup AgesValues \cup AgesMapValues
                 \cup {IntV(1), PtrTo("*cycle", CycleV(1))}
                 \cup SelfValues \cup {PtrTo("*" \o sv.ty, sv) : sv \in SelfValues}
                 \cup {NilPtr(t) : t \in {"*cycle", "**cycle", "*selfAndTagValidator",
                                          "*selfValidatorPtrRecv", "*warningValidator"}}
                 \cup {PtrTo("**cycle", NilPtr("*cycle")), PtrTo("**cycle", PtrTo("*cycle", CycleV(1)))}
    /\ children = <<>>

Init ==
    /\ InitAndOr \/ InitItems \/ InitCustomMessage \/ InitValidate
    /\ validator = NoOpValidator
    /\ out = NotRun
    /\ pc = "ready"
    /\ field = NoStructField /\ tagParts = <<>> /\ disjuncts = <<>>
    /\ scan = parseTagInit(<<>>) /\ parsed = StructTagParseResult(NoOpValidator, "")
    /\ NoResolution

ctx0 == Context(opts, value)

Run(v) ==
    /\ validator' = v
    /\ out' = Validate(v, ctx0)
    /\ pc' = "done"
    /\ UNCHANGED <<op, opts, children, value>>
    /\ UNCHANGED parseVars
    /\ UNCHANGED resolveVars

\* Validate, lines 35-38: what is returned once validator.Validate(ctx) returned r
returned(o, r) ==
    IF r.panic THEN r
    ELSE IF o.WarningsAsErrors THEN Res(MergeWarning(r.err, r.warn), Nil, r.ran)
    ELSE r

\* Validate, from line 25: after opts.Registry.LookupValidator returned l
validateWith(l, obj, o) ==
    IF l.err # Nil THEN Res(l.err, Nil, <<>>)
    ELSE returned(o, Validate(l.v, Context(o, obj)))

\* Validate(obj, options...), without the Validator option: the validator is
\* looked up in the Registry by the type of obj
ValidateObj(obj, o) == validateWith(LookupValidator(o.Registry, obj.ty), obj, o)

RunValidate ==
    /\ pc = "ready" /\ op = "Validate"
    /\ validator' = LookupValidator(opts.Registry, value.ty).v
    /\ out' = ValidateObj(value, opts)
    /\ pc' = "done"
    /\ UNCHANGED <<op, opts, children, value>>
    /\ UNCHANGED parseVars
    /\ UNCHANGED resolveVars

RunAnd == pc = "ready" /\ op = "And" /\ Run(And(children))

RunOr == pc = "ready" /\ op = "Or" /\ Run(Or(children))

RunItems == pc = "ready" /\ op = "Items" /\ Run(Items(children[1]))

RunCustomMessage ==
    pc = "ready" /\ op = "CustomMessage" /\ Run(CustomMessage(children[1], customMsg))

Next == RunAnd \/ RunOr \/ RunItems \/ RunCustomMessage \/ RunValidate

Spec == Init /\ [][Next]_vars

-----------------------------------------------------------------------------
(* The struct-tag parser, step by step: DefaultStructTagParser on one      *)
(* field, one action per iteration of parseTag's loop and per part.        *)

\* the characters the exhaustively enumerated tags are made of: a registered
\* name ("a"), an identifier character that is no registered name ("1", also
\* an argument), the punctuation of the grammar and a space
TagAlphabet == {"a", "1", "(", ")", ",", " ", "|", "~"}

\* tags of validate_test.go and of the README, and the tag "-"
KnownTags ==
    { <<"-">>,
      <<"n","o","t","e","m","p","t","y">>,
      <<"n","o","t","n","i","l",","," ","s","t","r","u","c","t">>,
      <<"g","t","(","3",")">>,
      <<"i","t","e","m","s">>,
      <<"i","n">>,
      <<"l","e","n","(","3",")",",","m","a","x","l","e","n","(","5",")">>,
      <<"i","n","(","1",",","2",")",",","n","o","t","e","m","p","t","y">>,
      <<"e","m","p","t","y","|","l","e","n","(","3",")","~","b","a","d">>,
      <<"l","e","n","(","3",")",",","n","o","t","e","m","p","t","y","|","e","m","p","t","y">>,
      <<"a",",","a","|","a","~","a",",","|","~">>,
      <<"a","(","1",")",",","a">> }

\* a field of type string, int or []int with a tag under the Registry's tag
\* name (every tag of up to MaxTagLen characters, and the known ones), with a
\* tag under another name only, or with no tag
ParseFields ==
    {StructField("f", t, tag) :
        t \in {"string", "int", "[]int"},
        tag \in {Tag1("validate", text) :
                    text \in SeqsUpTo(TagAlphabet, MaxTagLen) \cup KnownTags}
                \cup {NoTag, Tag1("json", <<"a">>)}}

defaultOptions == [Registry |-> DefaultRegistry, StopOnError |-> FALSE, WarningsAsErrors |-> FALSE]

InitParse ==
    /\ op = "Parse"
    /\ opts = defaultOptions
    /\ children = <<>> /\ value = Invalid /\ validator = NoOpValidator /\ out = NotRun
    /\ pc = "ready"
    /\ field \in ParseFields
    /\ tagParts = <<>> /\ disjuncts = <<>>
    /\ scan = parseTagInit(<<>>) /\ parsed = StructTagParseResult(NoOpValidator, "")
    /\ NoResolution

\* the ResolutionContext of the field
rctx == ResolutionContext(<<>>, field, field.Type, opts.Registry)

tagName == opts.Registry.structTagName

\* DefaultStructTagParser: no tag under tagName, or the tag "-"
ParseNoTag ==
    /\ pc = "ready" /\ op = "Parse"
    /\ ~HasTag(rctx, tagName)
    /\ parsed' = StructTagParseResult(NoOpValidator, "")
    /\ pc' = "done"
    /\ UNCHANGED <<field, tagParts, disjuncts, scan>>
    /\ UNCHANGED checkVars
    /\ UNCHANGED resolveVars

\* DefaultStructTagParser: split the tag, enter parseTag on the first part
ParseSplit ==
    /\ pc = "ready" /\ op = "Parse"
    /\ HasTag(rctx, tagName)
    /\ tagParts' = Split(defAndMessage(rctx, tagName)[1], "|")
    /\ disjuncts' = <<>>
    /\ scan' = parseTagInit(tagParts'[1])
    /\ pc' = "scan"
    /\ UNCHANGED <<field, parsed>>
    /\ UNCHANGED checkVars
    /\ UNCHANGED resolveVars

\* parseTag: one iteration of the loop
ScanStep ==
    /\ pc = "scan" /\ ~scan.done
    /\ scan' = parseTagStep(rctx, scan)
    /\ UNCHANGED <<pc, field, tagParts, disjuncts, parsed>>
    /\ UNCHANGED checkVars
    /\ UNCHANGED resolveVars

\* parseTag returned an error: so does DefaultStructTagParser
ParseFails ==
    /\ pc = "scan" /\ scan.done /\ scan.err # Nil
    /\ parsed' = ParseFailed(scan.err)
    /\ pc' = "done"
    /\ UNCHANGED <<field, tagParts, disjuncts, scan>>
    /\ UNCHANGED checkVars
    /\ UNCHANGED resolveVars

\* parseTag returned a validator and there is another part: enter parseTag on it
ParseNextPart ==
    /\ pc = "scan" /\ scan.done /\ scan.err = Nil
    /\ Len(disjuncts) + 1 < Len(tagParts)
    /\ disjuncts' = Append(disjuncts, parseTagResult(scan).v)
    /\ scan' = parseTagInit(tagParts[Len(disjuncts) + 2])
    /\ UNCHANGED <<pc, field, tagParts, parsed>>
    /\ UNCHANGED checkVars
    /\ UNCHANGED resolveVars

\* parseTag returned the validator of the last part
ParseReturns ==
    /\ pc = "scan" /\ scan.done /\ scan.err = Nil
    /\ Len(disjuncts) + 1 = Len(tagParts)
    /\ disjuncts' = Append(disjuncts, parseTagResult(scan).v)
    /\ parsed' = StructTagParseResult(Or(disjuncts'),
                      IF Len(defAndMessage(rctx, tagName)) = 2
                      THEN Text(defAndMessage(rctx, tagName)[2]) ELSE "")
    /\ pc' = "done"
    /\ UNCHANGED <<field, tagParts, scan>>
    /\ UNCHANGED checkVars
    /\ UNCHANGED resolveVars

NextParse ==
    ParseNoTag \/ ParseSplit \/ ScanStep \/ ParseFails \/ ParseNextPart \/ ParseReturns

SpecParse == InitParse /\ [][NextParse]_vars

\* the steps arrive at what DefaultStructTagParser computes in one go
StepsAgreeWithParser ==
    (op = "Parse" /\ pc = "done") => parsed = DefaultStructTagParser(rctx, tagName)

-----------------------------------------------------------------------------
(* Registry.LookupValidator, step by step.  The validators map of the      *)
(* Registry is opts.Registry.validators; stack holds one frame per call in *)
(* progress (lookupValidator, buildValidator, buildStructValidator,        *)
(* DefaultStructTagParser, parseTag, ItemsFactory), and one action is one  *)
(* call, one return or one iteration of a loop.  The lookups of one run    *)
(* follow each other on the same Registry.                                 *)

\* the deepest the calls of a resolution may nest: the goroutine's stack
MaxStack == 12

\* the types the caller looks up
ResolveTypes == {"cycle", "*cycle", "agesMap", "warningValidator", "int", "interface {}",
                 "badTag", "badName", "badArg", "lateBad", "forest"}

\* ctx.registry is a pointer to the Registry
RegistryPtr == "*Registry"

deref(ctx) == [ctx EXCEPT !.registry = opts.Registry]

\* a call in progress: of which function (k), where in it (phase), its ctx
\* and its locals
Frame(k, ctx) ==
    [k |-> k, phase |-> "call", ctx |-> ctx, i |-> 1, validators |-> <<>>,
     tagName |-> "", parts |-> <<>>, ps |-> parseTagInit(<<>>), name |-> "", args |-> <<>>]

Top == stack[Len(stack)]

SetTop(f) == [stack EXCEPT ![Len(stack)] = f]

Resolving == pc \in {"lookup", "iface", "delayed"}

\* the call on top has not called yet, or waits for a call that has returned
Calling(k, phase) ==
    Resolving /\ stack # <<>> /\ ~ret.has /\ Top.k = k /\ Top.phase = phase

Resumed(k, phase) ==
    Resolving /\ stack # <<>> /\ ret.has /\ Top.k = k /\ Top.phase = phase

Ret(r) == [has |-> TRUE, v |-> r.v, err |-> r.err, msg |-> ""]

\* the variables no step of a resolution writes
outerVars == <<op, children, value, validator, out, field, tagParts, disjuncts, scan, parsed, target>>

callerVars == <<outerVars, concVars>>

\* the call on top, now at `waiting`, calls f: a call that does not fit on
\* the stack ends the program (fatal error: stack overflow)
Call(waiting, f) ==
    IF Len(stack) < MaxStack
    THEN stack' = Append(SetTop(waiting), f) /\ pc' = pc
    ELSE stack' = stack /\ pc' = "fatal"

\* the call on top returns r to its caller
Return(r) ==
    /\ stack' = SubSeq(stack, 1, Len(stack) - 1)
    /\ ret' = r
    /\ pc' = pc

\* ResolutionContext.LookupValidator, lines 26-32: t is the Type of a parent
OnChainNever(ctx, t) == FALSE

OnChain(ctx, t) == \E k \in 1..Len(ctx.Parent) : ctx.Parent[k] = t

\* delayedLookup(r, t), called in the context ctx: a closure whose v is nil
Closure(ctx, t) == [t |-> t, at |-> Append(ctx.Parent, ctx.Type), v |-> Nil]

\* ResolutionContext.LookupValidator(t) called by the call on top, which
\* then is at `waiting`
ctxLookupValidatorCall(ctx, t, waiting) ==
    IF OnChain(ctx, t)
    THEN /\ stack' = SetTop(waiting)
         /\ ret' = Ret(Built(delayedLookup(t)))
         /\ closures' = {c \in closures : c.t # t \/ c.at # Closure(ctx, t).at}
                            \cup {Closure(ctx, t)}
         /\ pc' = pc
    ELSE /\ Call(waiting, Frame("lookup", [ctx EXCEPT !.Parent = Append(@, ctx.Type), !.Type = t]))
         /\ UNCHANGED <<ret, closures>>

\* Registry.lookupValidator, lines 107-115: the map has an entry
LookupHit ==
    /\ Calling("lookup", "call")
    /\ Top.ctx.Type \in DOMAIN opts.Registry.validators
    /\ Return(Ret(IF opts.Registry.validators[Top.ctx.Type] = Nil
                  THEN NotBuilt(ErrNoValidator(Top.ctx.Type))
                  ELSE Built(opts.Registry.validators[Top.ctx.Type])))
    /\ UNCHANGED <<opts, closures, callerVars>>

\* Registry.lookupValidator, line 118: no entry, buildValidator is called
LookupMiss ==
    /\ Calling("lookup", "call")
    /\ Top.ctx.Type \notin DOMAIN opts.Registry.validators
    /\ Call([Top EXCEPT !.phase = "build"], Frame("build", Top.ctx))
    /\ UNCHANGED <<opts, ret, closures, callerVars>>

\* Registry.lookupValidator, lines 119-126, without lines 119-122
LookupBuiltInstallsFailure ==
    /\ Resumed("lookup", "build")
    /\ opts' = [opts EXCEPT !.Registry.validators = (Top.ctx.Type :> ret.v) @@ @]
    /\ Return(ret)
    /\ UNCHANGED <<closures, callerVars>>

\* Registry.lookupValidator, lines 119-126, without line 124
LookupBuiltNotInstalled ==
    /\ Resumed("lookup", "build")
    /\ Return(ret)
    /\ UNCHANGED <<opts, closures, callerVars>>

\* Registry.lookupValidator, lines 119-126: buildValidator returned
LookupBuilt ==
    /\ Resumed("lookup", "build")
    /\ opts' = IF ret.err # Nil THEN opts
               ELSE [opts EXCEPT !.Registry.validators = (Top.ctx.Type :> ret.v) @@ @]
    /\ Return(ret)
    /\ UNCHANGED <<closures, callerVars>>

\* buildNonImplValidator, case reflect.Struct
BuildStruct ==
    /\ Calling("build", "call") /\ Kind(Top.ctx.Type) = "struct"
    /\ Call([Top EXCEPT !.phase = "struct"], Frame("struct", Top.ctx))
    /\ UNCHANGED <<opts, ret, closures, callerVars>>

\* buildNonImplValidator, case reflect.Ptr, line 84
BuildPtr ==
    /\ Calling("build", "call") /\ Kind(Top.ctx.Type) = "ptr"
    /\ ctxLookupValidatorCall(Top.ctx, Types[Top.ctx.Type].elem, [Top EXCEPT !.phase = "ptr"])
    /\ UNCHANGED <<opts, callerVars>>

\* buildNonImplValidator, case reflect.Interface: nothing is looked up
BuildInterface ==
    /\ Calling("build", "call") /\ Kind(Top.ctx.Type) = "interface"
    /\ Return(Ret(Built(And(<<validatorImpl(Top.ctx.Type), ifaceValidator>>))))
    /\ UNCHANGED <<opts, closures, callerVars>>

\* buildNonImplValidator, line 112
BuildNoValidator ==
    /\ Calling("build", "call") /\ Kind(Top.ctx.Type) \notin {"struct", "ptr", "interface"}
    /\ Return(Ret(NotBuilt(ErrNoValidator(Top.ctx.Type))))
    /\ UNCHANGED <<opts, closures, callerVars>>

\* buildValidator, lines 70-75, and buildNonImplValidator, lines 85-94: the
\* struct validator, or the validator of the pointer's element, has returned
BuildReturns ==
    /\ \/ Resumed("build", "struct")
       \/ Resumed("build", "ptr")
    /\ Return(IF ret.err # Nil THEN ret
              ELSE Ret(Built(And(<<validatorImpl(Top.ctx.Type),
                                   IF Top.phase = "ptr" THEN ptrValidator(ret.v) ELSE ret.v>>))))
    /\ UNCHANGED <<opts, closures, callerVars>>

\* what ParseStructTags hands to its caller
RetParsed(stpr) ==
    [has |-> TRUE, v |-> stpr.Validator, err |-> stpr.err, msg |-> stpr.CustomMessage]

\* the StructTagParseResult the caller of ParseStructTags received
Stpr == [Validator |-> ret.v, CustomMessage |-> ret.msg, err |-> ret.err]

\* buildStructValidator, lines 122-130: ParseStructTags of the i-th field
StructNextField ==
    /\ Calling("struct", "call") /\ Top.i <= Len(Types[Top.ctx.Type].fields)
    /\ Call([Top EXCEPT !.phase = "parse"],
            [Frame("parser", [Top.ctx EXCEPT !.Parent = Append(@, Top.ctx.Type),
                                              !.Type = Types[Top.ctx.Type].fields[Top.i].Type,
                                              !.StructField = Types[Top.ctx.Type].fields[Top.i]])
                EXCEPT !.tagName = opts.Registry.structTagName])
    /\ UNCHANGED <<opts, ret, closures, callerVars>>

\* buildStructValidator, lines 131-143, were the error of a field passed over
StructFieldPassesOver ==
    /\ Resumed("struct", "parse")
    /\ stack' = SetTop([Top EXCEPT !.phase = "call", !.i = @ + 1,
                                   !.validators =
                                       IF ret.err # Nil THEN @
                                       ELSE Append(@, fieldValidator(Types[Top.ctx.Type].fields[Top.i],
                                                                     Stpr))])
    /\ ret' = NoRet
    /\ UNCHANGED <<pc, opts, closures, callerVars>>

\* buildStructValidator, lines 131-143: ParseStructTags returned
StructFieldParsed ==
    /\ Resumed("struct", "parse")
    /\ IF ret.err # Nil THEN Return(Ret(NotBuilt(ret.err)))
       ELSE /\ stack' = SetTop([Top EXCEPT !.phase = "call", !.i = @ + 1,
                                           !.validators =
                                               Append(@, fieldValidator(Types[Top.ctx.Type].fields[Top.i],
                                                                        Stpr))])
            /\ ret' = NoRet
            /\ pc' = pc
    /\ UNCHANGED <<opts, closures, callerVars>>

\* buildStructValidator, line 145
StructReturns ==
    /\ Calling("struct", "call") /\ Top.i > Len(Types[Top.ctx.Type].fields)
    /\ Return(Ret(Built(And(Top.validators))))
    /\ UNCHANGED <<opts, closures, callerVars>>

\* DefaultStructTagParser, lines 465-468: no tag under tagName, or "-"
ParserNoTag ==
    /\ Calling("parser", "call") /\ ~HasTag(Top.ctx, Top.tagName)
    /\ Return(RetParsed(StructTagParseResult(NoOpValidator, "")))
    /\ UNCHANGED <<opts, closures, callerVars>>

\* a call of parseTag on the part `part`
ScanFrame(ctx, part) == [Frame("scan", ctx) EXCEPT !.ps = parseTagInit(part)]

\* DefaultStructTagParser, lines 470-476: split, parseTag of the first part
ParserSplit ==
    /\ Calling("parser", "call") /\ HasTag(Top.ctx, Top.tagName)
    /\ Call([Top EXCEPT !.phase = "scan",
                        !.parts = Split(defAndMessage(Top.ctx, Top.tagName)[1], "|")],
            ScanFrame(Top.ctx, Split(defAndMessage(Top.ctx, Top.tagName)[1], "|")[1]))
    /\ UNCHANGED <<opts, ret, closures, callerVars>>

\* DefaultStructTagParser, lines 477-479: parseTag returned an error
ParserFails ==
    /\ Resumed("parser", "scan") /\ ret.err # Nil
    /\ Return(RetParsed(ParseFailed(ret.err)))
    /\ UNCHANGED <<opts, closures, callerVars>>

\* DefaultStructTagParser, line 480 and the next iteration
ParserNextPart ==
    /\ Resumed("parser", "scan") /\ ret.err = Nil /\ Top.i < Len(Top.parts)
    /\ Call([Top EXCEPT !.i = @ + 1, !.validators = Append(@, ret.v)],
            ScanFrame(Top.ctx, Top.parts[Top.i + 1]))
    /\ ret' = IF pc' = "fatal" THEN ret ELSE NoRet
    /\ UNCHANGED <<opts, closures, callerVars>>

\* DefaultStructTagParser, lines 480-490: the last part is parsed
ParserReturns ==
    /\ Resumed("parser", "scan") /\ ret.err = Nil /\ Top.i = Len(Top.parts)
    /\ Return(RetParsed(StructTagParseResult(
                  Or(Append(Top.validators, ret.v)),
                  IF Len(defAndMessage(Top.ctx, Top.tagName)) = 2
                  THEN Text(defAndMessage(Top.ctx, Top.tagName)[2]) ELSE "")))
    /\ UNCHANGED <<opts, closures, callerVars>>

\* parseTag is at the end of a term whose factory calls back into the
\* resolution: the name of that factory ("" when it is none of them)
CallingFactory(ps) ==
    IF /\ ~ps.done /\ ps.state = "none"
       /\ (ps.i = Len(ps.tag) \/ ps.tag[ps.i + 1] = ",")
       /\ LookupTagValidatorFactory(opts.Registry, ps.validatorName).err = Nil
       /\ LookupTagValidatorFactory(opts.Registry, ps.validatorName).vf
              \in {"ItemsFactory", "StructFactory"}
    THEN LookupTagValidatorFactory(opts.Registry, ps.validatorName).vf
    ELSE ""

\* parseTag, line 532: vf.Create is about to be called
creating(ps) ==
    [ps EXCEPT !.calls = Append(@, [name |-> ps.validatorName, args |-> ps.validatorArgs])]

\* parseTag: one iteration of the loop that calls no such factory
ScanChar ==
    /\ Calling("scan", "call") /\ ~Top.ps.done /\ CallingFactory(Top.ps) = ""
    /\ stack' = SetTop([Top EXCEPT !.ps = parseTagStep(deref(Top.ctx), Top.ps)])
    /\ UNCHANGED <<pc, opts, ret, closures, callerVars>>

\* StructFactory: ctx.LookupValidator(ctx.Type)
ScanStructFactory ==
    /\ Calling("scan", "call") /\ CallingFactory(Top.ps) = "StructFactory"
    /\ ctxLookupValidatorCall(Top.ctx, Top.ctx.Type,
                              [Top EXCEPT !.phase = "create", !.ps = creating(@)])
    /\ UNCHANGED <<opts, callerVars>>

\* ItemsFactory is called
ScanItemsFactory ==
    /\ Calling("scan", "call") /\ CallingFactory(Top.ps) = "ItemsFactory"
    /\ Call([Top EXCEPT !.phase = "create", !.ps = creating(@)],
            [Frame("items", Top.ctx) EXCEPT !.name = Top.ps.validatorName,
                                            !.args = Top.ps.validatorArgs])
    /\ UNCHANGED <<opts, ret, closures, callerVars>>

\* parseTag, lines 533-539: vf.Create returned
ScanCreated ==
    /\ Resumed("scan", "create")
    /\ stack' = SetTop([Top EXCEPT !.phase = "call", !.ps = created(Top.ps, ret)])
    /\ ret' = NoRet
    /\ UNCHANGED <<pc, opts, closures, callerVars>>

\* parseTag, lines 555-559: the loop has ended
ScanReturns ==
    /\ Calling("scan", "call") /\ Top.ps.done
    /\ Return(Ret(parseTagResult(Top.ps)))
    /\ UNCHANGED <<opts, closures, callerVars>>

\* ItemsFactory, lines 269-272
ItemsNotAllowed ==
    /\ Calling("items", "call") /\ isItemsAllowed(Top.ctx.Type, Top.name) # Nil
    /\ Return(Ret(NotBuilt(isItemsAllowed(Top.ctx.Type, Top.name))))
    /\ UNCHANGED <<opts, closures, callerVars>>

\* ItemsFactory, lines 274-282: ParseStructTags(itemsTagName) on the item type
ItemsParse ==
    /\ Calling("items", "call") /\ isItemsAllowed(Top.ctx.Type, Top.name) = Nil
    /\ Call([Top EXCEPT !.phase = "parse"],
            [Frame("parser", [Top.ctx EXCEPT !.Type = Types[Top.ctx.Type].elem])
                EXCEPT !.tagName = IF Len(Top.args) = 1 THEN Text(Top.args[1])
                                   ELSE "validateItems"])
    /\ UNCHANGED <<opts, ret, closures, callerVars>>

\* ItemsFactory, lines 283-295
ItemsReturns ==
    /\ Resumed("items", "parse")
    /\ Return(Ret(itemsOf(Stpr)))
    /\ UNCHANGED <<opts, closures, callerVars>>

\* the Registry a run starts with: the default one, or one in which the
\* caller registered a validator for int (RegistryBuilder.RegisterValidator)
InitialRegistries ==
    {DefaultRegistry,
     Registry([t \in {"int"} |-> GreaterThan(Int64V(3))], DefaultTagValidatorFactories)}

InitResolve ==
    /\ op = "Resolve"
    /\ opts \in {[defaultOptions EXCEPT !.Registry = r] : r \in InitialRegistries}
    /\ children = <<>> /\ value = Invalid /\ validator = NoOpValidator /\ out = NotRun
    /\ pc = "idle"
    /\ field = NoStructField /\ tagParts = <<>> /\ disjuncts = <<>>
    /\ scan = parseTagInit(<<>>) /\ parsed = StructTagParseResult(NoOpValidator, "")
    /\ NoResolution

\* Registry.LookupValidator(t), lines 94-100: the call of lookupValidator
\* with a ResolutionContext that has no parent
RootLookup(t) == <<Frame("lookup", ResolutionContext(<<>>, NoStructField, t, RegistryPtr))>>

\* the caller looks up the validator of t
Resolve(t) ==
    /\ pc = "idle"
    /\ op' = "LookupValidator" /\ target' = [t |-> t, at |-> <<>>]
    /\ stack' = RootLookup(t) /\ ret' = NoRet /\ pc' = "lookup"
    /\ value' = Invalid /\ validator' = NoOpValidator /\ out' = NotRun
    /\ UNCHANGED <<opts, children, closures>>
    /\ UNCHANGED parseVars
    /\ UNCHANGED concVars

\* Registry.LookupValidator returns to the caller what lookupValidator returned
ResolveReturns ==
    /\ pc = "lookup" /\ stack = <<>> /\ ret.has
    /\ validator' = ret.v
    /\ pc' = "idle"
    /\ UNCHANGED <<op, opts, children, value, out>>
    /\ UNCHANGED parseVars
    /\ UNCHANGED resolveVars

\* the values an interface{} holds when its validator checks it
HeldValues ==
    {CycleV(1), IntV(4), StructV("badName", [f \in {"A", "B"} |-> StrV("x")]),
     StructV("agesMap", [f \in {"Ages"} |->
         MapV("map[string]int", <<"k">>, [k \in {"k"} |-> IntV(3)])])}

\* lines 98-99, were the type looked up that of the interface value
IfaceCheckStatic(val) ==
    /\ pc = "idle"
    /\ "interface {}" \in DOMAIN opts.Registry.validators
    /\ op' = "interface" /\ target' = [t |-> "interface {}", at |-> <<>>]
    /\ value' = IfaceV("interface {}", val)
    /\ stack' = RootLookup("interface {}") /\ ret' = NoRet /\ pc' = "iface"
    /\ validator' = ifaceValidator /\ out' = NotRun
    /\ UNCHANGED <<opts, children, closures>>
    /\ UNCHANGED parseVars
    /\ UNCHANGED concVars

\* the validator of interface{} checks a value holding val, lines 98-99:
\* registry.LookupValidator of the type of the value held
IfaceCheck(val) ==
    /\ pc = "idle"
    /\ "interface {}" \in DOMAIN opts.Registry.validators
    /\ op' = "interface" /\ target' = [t |-> val.ty, at |-> <<>>]
    /\ value' = IfaceV("interface {}", val)
    /\ stack' = RootLookup(val.ty) /\ ret' = NoRet /\ pc' = "iface"
    /\ validator' = ifaceValidator /\ out' = NotRun
    /\ UNCHANGED <<opts, children, closures>>
    /\ UNCHANGED parseVars
    /\ UNCHANGED concVars

\* lines 100-108: the lookup returned; its error, or the check of the value held
IfaceChecked ==
    /\ pc = "iface" /\ stack = <<>> /\ ret.has
    /\ out' = ValidateFound(ret, "interface", ctx0, child(ctx0, "*", Elem(value)))
    /\ pc' = "idle"
    /\ UNCHANGED <<op, opts, children, value, validator>>
    /\ UNCHANGED parseVars
    /\ UNCHANGED resolveVars

\* the values a deferred validator for type t checks
DelayedValues(t) ==
    IF t = "cycle" THEN {CycleV(d) : d \in 0..MaxDepth}
    ELSE IF t = "*cycle" THEN {NilPtr("*cycle"), PtrTo("*cycle", CycleV(1))}
    ELSE {}

\* delayedLookup, lines 151-153: v == nil, r.LookupValidator(t) is called
DelayedFirst(c, val) ==
    /\ pc = "idle" /\ c.v = Nil
    /\ op' = "delayedLookup" /\ target' = [t |-> c.t, at |-> c.at]
    /\ value' = val
    /\ stack' = RootLookup(c.t) /\ ret' = NoRet /\ pc' = "delayed"
    /\ validator' = delayedLookup(c.t) /\ out' = NotRun
    /\ UNCHANGED <<opts, children, closures>>
    /\ UNCHANGED parseVars
    /\ UNCHANGED concVars

\* delayedLookup, lines 153-159, were the validator looked up not kept in v
DelayedKeepsNothing ==
    /\ pc = "delayed" /\ stack = <<>> /\ ret.has
    /\ out' = ValidateFound(ret, "delayedLookup", ctx0, ctx0)
    /\ pc' = "idle"
    /\ UNCHANGED <<op, opts, children, value, validator>>
    /\ UNCHANGED parseVars
    /\ UNCHANGED resolveVars

\* delayedLookup, lines 153-159: the lookup returned into v; its error, or
\* v.Validate(ctx)
DelayedLookedUp ==
    /\ pc = "delayed" /\ stack = <<>> /\ ret.has
    /\ closures' = {IF c.t = target.t /\ c.at = target.at /\ ret.err = Nil
                    THEN [c EXCEPT !.v = ret.v] ELSE c : c \in closures}
    /\ out' = ValidateFound(ret, "delayedLookup", ctx0, ctx0)
    /\ pc' = "idle"
    /\ UNCHANGED <<op, opts, children, value, validator, stack, ret, target>>
    /\ UNCHANGED parseVars
    /\ UNCHANGED concVars

\* delayedLookup, lines 151 and 159: v != nil, v.Validate(ctx)
DelayedAgain(c, val) ==
    /\ pc = "idle" /\ c.v # Nil
    /\ op' = "delayedLookup" /\ target' = [t |-> c.t, at |-> c.at]
    /\ value' = val
    /\ validator' = delayedLookup(c.t)
    /\ out' = Validate(c.v, Context(opts, val))
    /\ ret' = NoRet
    /\ UNCHANGED <<pc, opts, children, stack, closures>>
    /\ UNCHANGED parseVars
    /\ UNCHANGED concVars

\* the steps of a lookup in progress, up to its return
StepResolve ==
    \/ LookupHit \/ LookupMiss \/ LookupBuilt
    \/ BuildStruct \/ BuildPtr \/ BuildInterface \/ BuildNoValidator \/ BuildReturns
    \/ StructNextField \/ StructFieldParsed \/ StructReturns
    \/ ParserNoTag \/ ParserSplit \/ ParserFails \/ ParserNextPart \/ ParserReturns
    \/ ScanChar \/ ScanStructFactory \/ ScanItemsFactory \/ ScanCreated \/ ScanReturns
    \/ ItemsNotAllowed \/ ItemsParse \/ ItemsReturns

NextResolve ==
    \/ \E t \in ResolveTypes : Resolve(t)
    \/ \E val \in HeldValues : IfaceCheck(val)
    \/ \E c \in closures : \E val \in DelayedValues(c.t) : DelayedFirst(c, val)
    \/ \E c \in closures : \E val \in DelayedValues(c.t) : DelayedAgain(c, val)
    \/ StepResolve
    \/ ResolveReturns \/ IfaceChecked \/ DelayedLookedUp

SpecResolve == InitResolve /\ [][NextResolve]_vars

\* a lookup in progress goes on: the goroutine that runs it is scheduled
SpecResolveFair == SpecResolve /\ WF_vars(StepResolve)

-----------------------------------------------------------------------------
(* Properties of the combinators.                                          *)

N == Len(children)

Done(o) == pc = "done" /\ op = o

\* the i-th child was invoked during the check
ChildRan(i) == \E k \in 1..Len(out.ran) : out.ran[k].id = fid(i)

\* exactly the first n children were invoked, in order, each against the
\* top-level Context
RanFirst(n) ==
    out.ran = [i \in 1..n |-> [id |-> fid(i), at |-> <<>>, err |-> children[i].err]]

RECURSIVE JoinWith(_, _)
JoinWith(msgs, word) ==
    IF Len(msgs) = 1 THEN msgs[1]
    ELSE msgs[1] \o " " \o word \o " " \o JoinWith(Tail(msgs), word)

ErrMsgs(vs) == LET es == SelectSeq(vs, LAMBDA c : c.err # Nil) IN [i \in 1..Len(es) |-> es[i].err.msg]

WarnMsgs(vs) == LET ws == SelectSeq(vs, LAMBDA c : c.warn # Nil) IN [i \in 1..Len(ws) |-> ws[i].warn.msg]

JoinedErr(vs, word) == IF ErrMsgs(vs) = <<>> THEN Nil ELSE newError(JoinWith(ErrMsgs(vs), word))

JoinedWarn(vs, word) == IF WarnMsgs(vs) = <<>> THEN Nil ELSE newWarning(JoinWith(WarnMsgs(vs), word))

\* child j ends a conjunction under the Options in effect
StopsAt(j) ==
    \/ children[j].err # Nil /\ opts.StopOnError
    \/ children[j].warn # Nil /\ opts.StopOnError /\ opts.WarningsAsErrors

\* C1: in And(v1..vn), n >= 2, child i+1 is run iff no child j <= i produced an
\* Error while StopOnError is set or a Warning while StopOnError and
\* WarningsAsErrors are both set (the first child is always run).
C1_AndEarlyStop ==
    (Done("And") /\ N >= 2) =>
        /\ ChildRan(1)
        /\ \A i \in 1..(N - 1) : ChildRan(i + 1) <=> ~(\E j \in 1..i : StopsAt(j))

\* a Warning does not stop the conjunction under StopOnError alone, the Error
\* of the next child does
C1_Witness ==
    /\ Done("And") /\ N >= 3
    /\ opts.StopOnError /\ ~opts.WarningsAsErrors
    /\ children[1].err = Nil /\ children[1].warn # Nil
    /\ children[2].err # Nil
    /\ ChildRan(2) /\ ~ChildRan(3)

\* C2: with StopOnError unset, And(v1..vn), n >= 2, runs every child in order
\* against the same Context and returns the Errors joined with " and " as its
\* Error and the Warnings joined with " and " as its Warning (nil if none).
C2_AndCollectsAll ==
    (Done("And") /\ N >= 2 /\ ~opts.StopOnError) =>
        /\ RanFirst(N)
        /\ out.err = JoinedErr(children, "and")
        /\ out.warn = JoinedWarn(children, "and")

C2_Witness ==
    /\ Done("And") /\ N >= 3 /\ ~opts.StopOnError /\ opts.WarningsAsErrors
    /\ children[1].err # Nil /\ children[1].warn # Nil
    /\ children[2].err = Nil /\ children[2].warn # Nil
    /\ children[3].err # Nil
    /\ out.err = newError("e1 and " \o children[3].err.msg)
    /\ out.warn = newWarning("w1 and w2")

\* C3: And() and Or() return (nil, nil) without running anything; And(v) and
\* Or(v) are v itself and return what v returns, for every Context and Options.
C3_ZeroOneChild ==
    (pc = "done" /\ op \in {"And", "Or"}) =>
        /\ N = 0 => out = Res(Nil, Nil, <<>>)
        /\ N = 1 =>
             /\ validator = children[1]
             /\ out = Validate(children[1], ctx0)
             /\ children[1].kind = "func" =>
                  /\ out.err = children[1].err
                  /\ out.warn = children[1].warn
                  /\ RanFirst(1)

\* a single child that fails with a usage error and a Warning
C3_Witness ==
    /\ Done("And") /\ N = 1
    /\ children[1].kind = "func"
    /\ children[1].err.t = "*errors.errorString" /\ children[1].warn # Nil
    /\ out.err = errorString("u1") /\ out.warn = newWarning("w1")

Succeeds(i) == children[i].err = Nil /\ children[i].warn = Nil

\* C4: Or(v1..vn), n >= 2, returns (nil, nil) iff some child returns neither an
\* Error nor a Warning; it then has run the children up to the first such child
\* and no later one; a child that returns only a Warning does not end it.
C4_OrSucceedsIff ==
    (Done("Or") /\ N >= 2) =>
        /\ (out.err = Nil /\ out.warn = Nil) <=> (\E i \in 1..N : Succeeds(i))
        /\ \A i \in 1..N :
             (Succeeds(i) /\ \A j \in 1..(i - 1) : ~Succeeds(j)) => RanFirst(i)

C4_Witness ==
    /\ Done("Or") /\ N >= 3
    /\ children[1].err = Nil /\ children[1].warn # Nil
    /\ Succeeds(2)
    /\ out.err = Nil /\ out.warn = Nil
    /\ ChildRan(1) /\ ChildRan(2) /\ ~ChildRan(3)

\* C5: when no child of Or(v1..vn), n >= 2, succeeds, Or has run every child,
\* whatever StopOnError and WarningsAsErrors are, and returns the Errors joined
\* with " or " and the Warnings joined with " or ", in child order.
C5_OrAllFail ==
    (Done("Or") /\ N >= 2 /\ \A i \in 1..N : ~Succeeds(i)) =>
        /\ RanFirst(N)
        /\ out.err = JoinedErr(children, "or")
        /\ out.warn = JoinedWarn(children, "or")

C5_Witness ==
    /\ Done("Or") /\ N >= 3
    /\ opts.StopOnError /\ opts.WarningsAsErrors
    /\ children[1].err # Nil /\ children[1].warn # Nil
    /\ children[2].err = Nil /\ children[2].warn # Nil
    /\ children[3].err # Nil /\ children[3].warn = Nil
    /\ out.err = newError("e1 or " \o children[3].err.msg)
    /\ out.warn = newWarning("w1 or w2")

\* the elements of the collection in the order Items visits them: the step
\* that leads to the i-th, and what the inner validator returns for it
ElemCount == IF value.k = "slice" THEN Len(value.items) ELSE Len(value.order)

ElemStep(i) == IF value.k = "slice" THEN "[" \o ToString(i - 1) \o "]"
               ELSE "[" \o value.order[i] \o "]"

ElemOutcome(i) == IF value.k = "slice" THEN children[1].tbl[value.items[i].n]
                  ELSE children[1].tbl[value.m[value.order[i]].n]

ElemRan(i) == \E k \in 1..Len(out.ran) : out.ran[k].at = <<ElemStep(i)>>

\* C6: Items stops like And: with StopOnError set no element after the first
\* one whose inner validator produced a data Error is validated, and with
\* StopOnError and WarningsAsErrors set no element after the first one that
\* produced a Warning is validated.
C6_ItemsStopRule ==
    Done("Items") =>
        \A i \in 1..ElemCount : \A j \in 1..(i - 1) :
            ElemRan(i) =>
                /\ ~(opts.StopOnError /\ ElemOutcome(j).err.t = "*Error")
                /\ ~(opts.StopOnError /\ opts.WarningsAsErrors /\ ElemOutcome(j).warn # Nil)

\* the errors raised while the inner validator of CustomMessage ran
Raised(r) == SelectSeq(r.ran, LAMBDA x : x.err # Nil)

\* C7: CustomMessage(v, msg) returns v's Warning as it is; when v fails because
\* of a usage error (one validator inside v raised an error that is not a data
\* Error) it returns that usage error unmodified, whatever combinators v is
\* built from; when v fails because of data Errors it returns msg.
C7_CustomMessagePassesUsageErrors ==
    Done("CustomMessage") =>
        LET r == Validate(children[1], ctx0) IN
        /\ out.warn = r.warn
        /\ (r.err # Nil /\ Len(Raised(r)) = 1 /\ Raised(r)[1].err.t # "*Error")
               => out.err = Raised(r)[1].err
        /\ (r.err # Nil /\ \A k \in 1..Len(Raised(r)) : Raised(r)[k].err.t = "*Error")
               => out.err = newError(customMsg)

-----------------------------------------------------------------------------
(* Properties of error paths and of the struct-tag parser.                 *)

\* the path a Context chain spells: its field and element steps, outermost
\* first, each followed by a space (a dereference adds nothing)
RECURSIVE PathOf(_)
PathOf(at) ==
    IF at = <<>> THEN ""
    ELSE IF Head(at) = "*" THEN PathOf(Tail(at))
    ELSE Head(at) \o " " \o PathOf(Tail(at))

\* the messages Items collects: for each element it validated whose inner
\* validator returned an Error, in the order visited, [index] or [key] and
\* the message
ItemErrMsgs ==
    LET failedElems == SelectSeq([i \in 1..ElemCount |-> i],
                                 LAMBDA i : ElemRan(i) /\ ElemOutcome(i).err # Nil)
    IN  [k \in 1..Len(failedElems) |->
            ElemStep(failedElems[k]) \o " " \o ElemOutcome(failedElems[k]).err.msg]

\* v with every deferred lookup replaced by the validator it resolves to,
\* d levels deep
RECURSIVE Resolved(_, _)
Resolved(v, d) ==
    CASE v.kind = "delayed" ->
           IF d = 0 THEN v ELSE Resolved(LookupValidator(opts.Registry, v.t).v, d - 1)
      [] v.kind \in {"and", "or"} ->
           [v EXCEPT !.validators = [i \in 1..Len(v.validators) |-> Resolved(v.validators[i], d)]]
      [] v.kind \in {"field", "items", "custom", "ptr"} ->
           [v EXCEPT !.validator = Resolved(v.validator, d)]
      [] OTHER -> v

\* C8: an Error is qualified by the Context chain of the check, outermost
\* first: when one validator of a struct's tags fails with a data Error (and
\* none produces a Warning that is merged into the Error), the
\* Error returned is its message behind the quoted field names and [index] /
\* [key] steps of the Context it ran in (so "c" "c" must not be nil and
\* "Ages" [1] [0] must be greater than 3); Items alone prefixes each failing
\* element's message with [index] (ascending) or [key] and joins them; and a
\* validator with deferred lookups returns what the same validator with the
\* lookups resolved up front returns.
C8_PathQualification ==
    /\ (Done("Validate") /\ ~out.panic /\ Len(Raised(out)) = 1
            /\ Raised(out)[1].err.t = "*Error" /\ Validate(validator, ctx0).warn = Nil) =>
           out.err = newError(PathOf(Raised(out)[1].at) \o Raised(out)[1].err.msg)
    /\ (Done("Validate") /\ value = CycleV(1)) =>
           out.err = newError("\"c\" \"c\" must not be nil")
    /\ (Done("Validate") /\ value.ty = "ages"
            /\ value.f["Ages"].items = <<SliceV("[]int", <<IntV(4)>>),
                                         SliceV("[]int", <<IntV(3)>>)>>) =>
           out.err = newError("\"Ages\" [1] [0] must be greater than 3")
    /\ (Done("Items") /\ \A i \in 1..ElemCount : ElemOutcome(i).err.t \in {"nil", "*Error"}) =>
           out.err = IF ItemErrMsgs = <<>> THEN Nil ELSE newError(JoinWith(ItemErrMsgs, "and"))
    /\ (Done("Validate") /\ value.ty \in {"cycle", "*cycle"}) =>
           /\ Validate(Resolved(validator, MaxDepth + 2), ctx0).err = Validate(validator, ctx0).err
           /\ Validate(Resolved(validator, MaxDepth + 2), ctx0).ran = Validate(validator, ctx0).ran

\* the inner c of cycle{c: &cycle{c: nil}} is checked by a validator reached
\* through the deferred lookup of cycle
C8_Witness ==
    /\ Done("Validate") /\ value = CycleV(1)
    /\ Len(out.ran) = 2
    /\ out.ran[2] = [id |-> "notnil", at |-> <<quoted("c"), "*", quoted("c")>>,
                      err |-> newError("must not be nil")]
    /\ out.err = newError("\"c\" \"c\" must not be nil")

\* the values a parsed validator is tried on
ProbeValues == {StrV(""), StrV("a"), IntV(0), SliceV("[]int", <<>>), SliceV("[]int", <<IntV(1)>>)}

\* C9: parsing a field whose tag is absent or is the empty string yields no
\* build error and a validator that succeeds, without a warning, on any value.
C9_EmptyOrAbsentTagIsNoOp ==
    (Done("Parse") /\ (tagName \notin DOMAIN field.Tag \/ field.Tag[tagName] = <<>>)) =>
        /\ parsed.err = Nil
        /\ \A v \in ProbeValues :
               Validate(parsed.Validator, Context(opts, v)) = Res(Nil, Nil, <<>>)

\* the terms of a disjunct: its pieces between the commas outside parentheses
RECURSIVE TermsFrom(_, _, _, _)
TermsFrom(tag, i, depth, term) ==
    IF i > Len(tag) THEN <<term>>
    ELSE IF tag[i] = "," /\ depth = 0 THEN <<term>> \o TermsFrom(tag, i + 1, 0, <<>>)
    ELSE TermsFrom(tag, i + 1,
                   IF tag[i] = "(" THEN depth + 1 ELSE IF tag[i] = ")" THEN depth - 1 ELSE depth,
                   Append(term, tag[i]))

TermsOf(tag) == TermsFrom(tag, 1, 0, <<>>)

\* a term without the spaces around it
RECURSIVE Trim(_)
Trim(term) ==
    IF term # <<>> /\ IsSpace(Head(term)) THEN Trim(Tail(term))
    ELSE IF term # <<>> /\ IsSpace(term[Len(term)]) THEN Trim(SubSeq(term, 1, Len(term) - 1))
    ELSE term

\* term is name or name(arg,...,arg)
WellFormedTerm(term) ==
    LET t == Trim(term)
        paren == IndexOf(t, "(")
    IN  IF paren = 0 THEN t # <<>> /\ \A k \in 1..Len(t) : IsIdent(t[k])
        ELSE /\ paren > 1 /\ \A k \in 1..(paren - 1) : IsIdent(t[k])
             /\ t[Len(t)] = ")"
             /\ \A k \in (paren + 1)..(Len(t) - 1) : t[k] \notin {"(", ")"}

TermName(term) ==
    LET t == Trim(term) IN
    Text(IF IndexOf(t, "(") = 0 THEN t ELSE SubSeq(t, 1, IndexOf(t, "(") - 1))

\* the raw argument strings of the term
TermArgs(term) ==
    LET t == Trim(term) IN
    IF IndexOf(t, "(") = 0 THEN <<>>
    ELSE Split(SubSeq(t, IndexOf(t, "(") + 1, Len(t) - 1), ",")

\* C10: while a disjunct made of well-formed terms is scanned, the j-th call
\* of a factory is for the j-th term: under the term's name, with exactly the
\* term's own raw argument strings (none for a term without parentheses).
C10_FactoryGetsOwnArgs ==
    (op = "Parse" /\ \A j \in 1..Len(TermsOf(scan.tag)) : WellFormedTerm(TermsOf(scan.tag)[j])) =>
        \A j \in 1..Len(scan.calls) :
            /\ j <= Len(TermsOf(scan.tag))
            /\ scan.calls[j].name = TermName(TermsOf(scan.tag)[j])
            /\ scan.calls[j].args = TermArgs(TermsOf(scan.tag)[j])

-----------------------------------------------------------------------------
(* Properties of the tag grammar.                                          *)

\* the pieces of text between the occurrences of c, read left to right
RECURSIVE Cut(_, _, _, _)
Cut(text, c, i, piece) ==
    IF i > Len(text) THEN <<piece>>
    ELSE IF text[i] = c THEN <<piece>> \o Cut(text, c, i + 1, <<>>)
    ELSE Cut(text, c, i + 1, Append(piece, text[i]))

\* the tag of the field under the Registry's tag name, its expression (the
\* text before the first '~') and its message (the text after it)
TagText == field.Tag[tagName]

ExprOf(text) == Cut(text, "~", 1, <<>>)[1]

MsgOf(text) == IF Len(ExprOf(text)) = Len(text) THEN <<>>
               ELSE SubSeq(text, Len(ExprOf(text)) + 2, Len(text))

\* the struct value whose field f holds val, and the check of that field by
\* the validator buildStructValidator makes of the parsed tag
Holding(val) == StructV("holder", [n \in {field.Name} |-> val])

CheckField(val) == Validate(fieldValidator(field, parsed), Context(opts, Holding(val)))

\* C11: the tag is split at the first '~' into expression and message; the
\* expression is an Or over its '|'-separated disjuncts, in textual order, and
\* a disjunct of well-formed terms is an And over the validators its terms
\* create, in textual order; the message replaces the Error of the whole
\* expression.  len(3),notempty|empty on "A" fails with
\* "f" must be of length 3 or must be empty.
C11_TagStructure ==
    /\ (Done("Parse") /\ HasTag(rctx, tagName) /\ parsed.err = Nil) =>
           /\ parsed.CustomMessage = Text(MsgOf(TagText))
           /\ Len(disjuncts) = Len(Cut(ExprOf(TagText), "|", 1, <<>>))
           /\ parsed.Validator = IF Len(disjuncts) = 1 THEN disjuncts[1]
                                  ELSE [kind |-> "or", validators |-> disjuncts]
    /\ (op = "Parse" /\ pc = "scan") =>
           scan.tag = Cut(ExprOf(TagText), "|", 1, <<>>)[Len(disjuncts) + 1]
    /\ (op = "Parse" /\ pc = "scan" /\ scan.done /\ scan.err = Nil
            /\ \A j \in 1..Len(TermsOf(scan.tag)) : WellFormedTerm(TermsOf(scan.tag)[j])) =>
           /\ Len(scan.validators) = Len(TermsOf(scan.tag))
           /\ \A j \in 1..Len(scan.validators) :
                  scan.validators[j] =
                      Create(rctx, opts.Registry.tagValidatorFactories[TermName(TermsOf(scan.tag)[j])],
                             TermName(TermsOf(scan.tag)[j]), scan.calls[j].args).v
           /\ parseTagResult(scan).v =
                  IF Len(scan.validators) = 1 THEN scan.validators[1]
                  ELSE [kind |-> "and", validators |-> scan.validators]
    /\ (Done("Parse") /\ field.Type = "string" /\ HasTag(rctx, tagName)
            /\ Text(TagText) = "len(3),notempty|empty") =>
           CheckField(StrV("A")).err = newError("\"f\" must be of length 3 or must be empty")
    /\ (Done("Parse") /\ field.Type = "string" /\ HasTag(rctx, tagName)
            /\ Text(TagText) = "empty|len(3)~bad") =>
           CheckField(StrV("A")).err = newError("bad")

\* len(3),notempty|empty is an Or of an And of two validators and of Empty
C11_Witness ==
    /\ Done("Parse") /\ field.Type = "string" /\ HasTag(rctx, tagName)
    /\ Text(TagText) = "len(3),notempty|empty"
    /\ parsed.Validator = [kind |-> "or",
                           validators |-> << [kind |-> "and", validators |-> <<Length(3), NotEmpty>>],
                                             Empty >>]
    /\ CheckField(StrV("A")).err = newError("\"f\" must be of length 3 or must be empty")

\* a disjunct is well formed when each of its terms is
Malformed(text) ==
    \E k \in 1..Len(Cut(ExprOf(text), "|", 1, <<>>)) :
        \E j \in 1..Len(TermsOf(Cut(ExprOf(text), "|", 1, <<>>)[k])) :
            ~WellFormedTerm(TermsOf(Cut(ExprOf(text), "|", 1, <<>>)[k])[j])

\* C12: a tag with a term that is not well formed (an unexpected character,
\* the end of the tag inside an argument list, a stray ')') is refused: parsing
\* it returns an error.
C12_ScannerRejectsMalformed ==
    (Done("Parse") /\ HasTag(rctx, tagName) /\ Malformed(TagText)) => parsed.err # Nil

-----------------------------------------------------------------------------
(* Properties of the validators built for pointers and for types with a    *)
(* Validate method.                                                        *)

\* C18: the check of a nil pointer (*T)(nil), or of a pointer to one, by the
\* validator built for its type returns an outcome: it does not panic,
\* whatever the referent type T (a struct, a type with a Validate method
\* declared by value or by reference, a pointer).
C18_NilPointerNeverFaults ==
    (Done("Validate") /\ value.k = "ptr"
        /\ (value.nil \/ (value.elem.k = "ptr" /\ value.elem.nil))) => ~out.panic

\* the struct the check is about, and the validator of its fields
SelfStruct == indirect(value)

FieldsValidator ==
    buildNonImplValidator(ResolutionContext(<<>>, NoStructField, SelfStruct.ty, opts.Registry)).v

\* the invocations of the Validate method of the value itself (not of a field)
SelfRuns == {k \in 1..Len(out.ran) : out.ran[k].id = "self" /\ out.ran[k].at \in {<<>>, <<"*">>}}

\* C20: validating a value of a struct type T that declares Validate (by value
\* or by reference), passed by value or through a pointer, returns what
\* And(self-check, validator of T's fields) returns for it; the self-check is
\* invoked once, before any field validator; when the self-check and the
\* fields both fail (and nothing stops the conjunction or merges a Warning)
\* the Error is the self-check's message, " and ", the fields' message.  (A
\* field that holds a nil pointer to a type with a Validate method makes both
\* panic: that is C18's case.)
C20_SelfThenFields ==
    (Done("Validate") /\ SelfStruct.k = "struct" /\ SelfStruct.ty \in DOMAIN Receiver) =>
        LET ctx == Context(opts, SelfStruct)
            self == SelfCheck(SelfStruct)
            fields == Validate(FieldsValidator, ctx)
            both == returned(opts, Validate([kind |-> "and",
                                             validators |-> <<selfValidator(Receiver[SelfStruct.ty]),
                                                              FieldsValidator>>], ctx))
        IN  /\ out.panic = both.panic
            /\ out.err = both.err /\ out.warn = both.warn
            /\ Cardinality(SelfRuns) = 1 /\ out.ran[1].id = "self"
            /\ (self.err # Nil /\ fields.err # Nil /\ ~opts.StopOnError
                    /\ (opts.WarningsAsErrors => self.warn = Nil /\ fields.warn = Nil)) =>
                   out.err = newError(self.err.msg \o " and " \o fields.err.msg)

-----------------------------------------------------------------------------
(* Properties of the resolution.                                           *)

cache == opts.Registry.validators

\* Registry.LookupValidator(target.t) has returned ret to the caller
LookupReturned == pc = "lookup" /\ stack = <<>> /\ ret.has

\* the error ParseStructTags returns for the j-th field of the struct ctx.Type
FieldErr(ctx, j) ==
    ParseStructTags(deref([ctx EXCEPT !.Parent = Append(@, ctx.Type),
                                      !.Type = Types[ctx.Type].fields[j].Type,
                                      !.StructField = Types[ctx.Type].fields[j]]),
                    opts.Registry.structTagName).err

\* the structs whose tags are parsed in one go for the comparison
ComparedStructs == {t \in DOMAIN Types : Kind(t) = "struct"} \ {"forest"}

Failing(ctx) == {j \in 1..Len(Types[ctx.Type].fields) : FieldErr(ctx, j) # Nil}

FirstFailing(ctx) == CHOOSE j \in Failing(ctx) : \A k \in Failing(ctx) : j <= k

\* C13: a build-time error short-circuits.  While the validator of a struct
\* type T is built, the loop over the fields never goes past a field whose
\* tag does not parse, names a factory that is not registered or names a
\* factory that returns an error; buildStructValidator returns the error of
\* the first such field and no validator, and so does the lookup of T, which
\* installs nothing for T (badTag: the second field's "invalid character",
\* not the third's unknown factory; badName: ErrNoTagValidatorFactory;
\* badArg: the error of ItemsFactory).
C13_BuildErrorsShortCircuit ==
    /\ \A k \in 1..Len(stack) :
          (stack[k].k = "struct" /\ stack[k].ctx.Type \in ComparedStructs) =>
              \A j \in 1..(stack[k].i - 1) : FieldErr(stack[k].ctx, j) = Nil
    /\ (Resumed("build", "struct") /\ Top.ctx.Type \in ComparedStructs
          /\ Failing(Top.ctx) # {}) =>
          /\ ret.err = FieldErr(Top.ctx, FirstFailing(Top.ctx))
          /\ ret.v = NotBuilt(ret.err).v
    /\ (LookupReturned /\ target.t \in ComparedStructs /\ target.t \notin DOMAIN cache
          /\ Failing(RootLookup(target.t)[1].ctx) # {}) =>
          /\ ret.err = FieldErr(RootLookup(target.t)[1].ctx,
                                FirstFailing(RootLookup(target.t)[1].ctx))
          /\ ret.v = NotBuilt(ret.err).v
    /\ (LookupReturned /\ target.t \in {"badTag", "badName", "badArg"}) =>
          /\ target.t \notin DOMAIN cache
          /\ ret.err = CASE target.t = "badTag" -> errorString("invalid character ')'")
                         [] target.t = "badName" -> ErrNoTagValidatorFactory("b")
                         [] target.t = "badArg" ->
                              InvalidTagArgumentsError("items",
                                  "only pointers to/or arrays, slices, and maps are supported")

\* the lookup of badTag returned the error of its second field: the third,
\* whose tag names no registered factory, was not reached
C13_Witness ==
    /\ LookupReturned /\ target.t = "badTag"
    /\ ret.err = errorString("invalid character ')'")
    /\ FieldErr(RootLookup("badTag")[1].ctx, 3) = ErrNoTagValidatorFactory("b")

\* C14: the Registry memoizes, and its map only grows.  When a lookup has
\* built a validator, the step that returns it has installed it under its
\* type; a lookup of a type that has an entry returns that entry in one
\* step, without a call of buildValidator; no step removes a key or changes
\* an entry; and whenever LookupValidator(T) has returned a validator, the
\* map holds it under T.
C14_MemoizationAndMonotonicCache ==
    /\ [](LookupReturned /\ ret.err = Nil =>
             target.t \in DOMAIN cache /\ cache[target.t] = ret.v)
    /\ [][/\ DOMAIN cache \subseteq DOMAIN cache'
          /\ \A t \in DOMAIN cache : cache'[t] = cache[t]
          /\ (Resumed("lookup", "build") /\ ret.err = Nil) =>
                /\ Top.ctx.Type \in DOMAIN cache'
                /\ cache'[Top.ctx.Type] = ret.v
                /\ ret' = ret
                /\ stack' = SubSeq(stack, 1, Len(stack) - 1)
          /\ (Calling("lookup", "call") /\ Top.ctx.Type \in DOMAIN cache
                /\ cache[Top.ctx.Type] # Nil) =>
                /\ stack' = SubSeq(stack, 1, Len(stack) - 1)
                /\ ret' = Ret(Built(cache[Top.ctx.Type]))
                /\ cache' = cache
         ]_vars

\* a later LookupValidator(cycle) finds the entry an earlier one installed
C14_Witness ==
    /\ pc = "lookup" /\ Len(stack) = 1 /\ Calling("lookup", "call")
    /\ target.t = "cycle" /\ "cycle" \in DOMAIN cache
    /\ cache["cycle"] # Nil

\* C15: every lookup that has started returns.  (It does not: in the struct
\* forest the tag that validates the items of a tree is again "items", and the
\* item type of a tree is tree, so ItemsFactory calls itself with the
\* arguments it was called with until the stack is exhausted.)
C15_ResolutionTerminates ==
    (Resolving /\ stack # <<>>) ~> (stack = <<>> /\ ret.has)

\* the types of the contexts from the root to ctx
Chain(ctx) == Append(ctx.Parent, ctx.Type)

\* the frames of the calls of buildValidator in progress
Builds == {k \in 1..Len(stack) : stack[k].k = "build"}

Invoked17 == CHOOSE c \in closures : c.t = target.t /\ c.at = target.at

\* a check by a deferred validator has returned
DelayedReturned == pc = "idle" /\ op = "delayedLookup" /\ out # NotRun

\* C17: a deferred validator looks its type up at the first check only.
\* When ResolutionContext.LookupValidator answers with a deferred validator,
\* the step makes no call and leaves the Registry's map alone, and the
\* closure's v is nil.  An invocation with v nil starts with
\* Registry.LookupValidator(T), keeps the validator it returns in v and runs
\* it; an invocation with v set makes no call, leaves the map alone and
\* returns what v returns.  Either way the (Error, Warning) returned is that
\* of the Registry's validator for T on the same Context; for cycle values it
\* names the nil field at the end of one, two and three levels of nesting.
C17_DeferredLooksUpOnce ==
    /\ [](DelayedReturned /\ target.t \in DOMAIN cache =>
             /\ Invoked17.v = cache[target.t]
             /\ out = Validate(cache[target.t], ctx0)
             /\ \A d \in 0..MaxDepth :
                   value = CycleV(d) =>
                       out.err = newError(CASE d = 0 -> "\"c\" must not be nil"
                                            [] d = 1 -> "\"c\" \"c\" must not be nil"
                                            [] d = 2 -> "\"c\" \"c\" \"c\" must not be nil"
                                            [] OTHER -> "\"c\" \"c\" \"c\" \"c\" must not be nil"))
    /\ [][/\ (Resolving /\ ~ret.has /\ ret'.has /\ ret'.v.kind = "delayed") =>
                /\ cache' = cache
                /\ Len(stack') = Len(stack)
                /\ \E c \in closures' : c.t = ret'.v.t /\ c.v = Nil
          /\ (pc = "idle" /\ op' = "delayedLookup") =>
                /\ closures' = closures /\ cache' = cache
                /\ \E c \in closures :
                      /\ c.t = target'.t /\ c.at = target'.at
                      /\ IF c.v = Nil
                         THEN pc' = "delayed" /\ stack' = RootLookup(c.t)
                         ELSE /\ pc' = "idle" /\ stack' = <<>>
                              /\ out' = Validate(c.v, Context(opts, value'))
         ]_vars

\* a deferred validator for cycle that holds the validator it looked up
\* earlier checks a cycle of two levels of nesting without a lookup
C17_Witness ==
    /\ DelayedReturned /\ ~ret.has
    /\ target.t = "cycle" /\ Invoked17.v = cache["cycle"]
    /\ value = CycleV(2)
    /\ out.err = newError("\"c\" \"c\" \"c\" must not be nil")

\* a check by the validator of interface{} has returned
IfaceReturned == pc = "idle" /\ op = "interface" /\ out # NotRun

\* C19: the validator of an interface type resolves the value held at check
\* time.  Building it makes no call and touches no entry of the map; each
\* check starts with Registry.LookupValidator of the type of the value held,
\* on the Registry that built it; when that lookup fails its error is the
\* Error of the check (no validator for int, the build error of badName);
\* otherwise the map holds the validator under the type of the value held
\* and the check returns what that validator returns on the value held.
C19_InterfaceResolvesAtCheck ==
    /\ [](pc = "iface" => target.t = Elem(value).ty)
    /\ [](IfaceReturned =>
             IF ret.err # Nil
             THEN /\ out.err = ret.err /\ out.warn = Nil
                  /\ Elem(value).ty \notin DOMAIN cache
                  /\ Elem(value).ty = "int" => out.err = ErrNoValidator("int")
                  /\ Elem(value).ty = "badName" => out.err = ErrNoTagValidatorFactory("b")
             ELSE /\ Elem(value).ty \in DOMAIN cache
                  /\ cache[Elem(value).ty] = ret.v
                  /\ out = Validate(ret.v, child(ctx0, "*", Elem(value)))
                  /\ Elem(value) = CycleV(1) =>
                         out.err = newError("\"c\" \"c\" must not be nil"))
    /\ [][/\ (Calling("build", "call") /\ Kind(Top.ctx.Type) = "interface") =>
                /\ stack' = SubSeq(stack, 1, Len(stack) - 1)
                /\ cache' = cache
                /\ ret' = Ret(Built(And(<<NoOpValidator, ifaceValidator>>)))
          /\ (pc = "idle" /\ pc' = "iface") =>
                /\ stack' = RootLookup(Elem(value').ty)
                /\ cache' = cache
         ]_vars

\* the check of an interface{} holding a cycle has had cycle looked up, which
\* is now in the map, and returned the Error of the validator of cycle
C19_Witness ==
    /\ IfaceReturned /\ Elem(value) = CycleV(1)
    /\ "cycle" \in DOMAIN cache /\ ret.v = cache["cycle"]
    /\ out.err = newError("\"c\" \"c\" must not be nil")

-----------------------------------------------------------------------------
(* Constraints applied to a type they do not support.                      *)

\* the Kind the validators look at: indirect follows the pointers
RECURSIVE IndirectKind(_)
IndirectKind(t) == IF Kind(t) = "ptr" THEN IndirectKind(Types[t].elem) ELSE Kind(t)

\* the types a constraint supports, by the switch of its validator at check
\* time: Empty, NotEmpty, Length, MaxLength on what has a Len; NotNil on what
\* can be nil; GreaterThan and In on what cmp compares; Items on what has items
Supports(name, t) ==
    CASE name \in {"empty", "notempty", "len", "maxlen"} -> IndirectKind(t) \in Sized
      [] name = "notnil" -> Kind(t) \in Nilable
      [] name \in {"gt", "in"} -> IndirectKind(t) \in {"bool", "int", "uint", "string"}
      [] name = "items" -> IndirectKind(t) \in {"array", "slice", "map"}
      [] OTHER -> TRUE

\* C21: a constraint applied to a field whose type it does not support makes
\* its factory return an InvalidTagArgumentsError: the scan of the tag stops
\* at that term with this error, parsing the field fails with it, and no
\* validator is made for the field.
C21_MisappliedConstraintFailsAtBuild ==
    /\ (op = "Parse" /\ pc = "scan") =>
           \A j \in 1..Len(scan.calls) :
               ~Supports(scan.calls[j].name, field.Type) =>
                   /\ j = Len(scan.calls) /\ scan.done
                   /\ scan.err # Nil /\ scan.err.t = "InvalidTagArgumentsError"
    /\ (Done("Parse") /\ HasTag(rctx, tagName)
            /\ \E j \in 1..Len(scan.calls) : ~Supports(scan.calls[j].name, field.Type)) =>
           /\ parsed.err # Nil /\ parsed.err.t = "InvalidTagArgumentsError"
           /\ parsed.Validator = NoOpValidator

-----------------------------------------------------------------------------
(* Validate under WarningsAsErrors.                                        *)

\* what the validator looked up for the value returned to Validate
Unmerged == Validate(validator, ctx0)

\* Validate looked a validator up and ran it under WarningsAsErrors
MergedRun ==
    /\ Done("Validate") /\ opts.WarningsAsErrors /\ ~out.panic
    /\ LookupValidator(opts.Registry, value.ty).err = Nil

\* C22: with WarningsAsErrors set Validate returns no Warning, and its Error
\* is nil when the validator returned neither an Error nor a Warning, carries
\* the message of the one present when only one is, and the message
\* "<error> and <warning>" when both are.
C22_WarningsMergedIntoError ==
    MergedRun =>
        /\ out.warn = Nil
        /\ (Unmerged.err = Nil /\ Unmerged.warn = Nil) => out.err = Nil
        /\ (Unmerged.err # Nil /\ Unmerged.warn = Nil) => out.err = newError(Unmerged.err.msg)
        /\ (Unmerged.err = Nil /\ Unmerged.warn # Nil) => out.err = newError(Unmerged.warn.msg)
        /\ (Unmerged.err # Nil /\ Unmerged.warn # Nil) =>
               out.err = newError(Unmerged.err.msg \o " and " \o Unmerged.warn.msg)

\* warningValidator{a: 2, b: 2} has both an Error and a Warning
C22_Witness ==
    /\ MergedRun /\ value.ty = "warningValidator"
    /\ Unmerged.err # Nil /\ Unmerged.warn # Nil
    /\ out.warn = Nil
    /\ out.err = newError(Unmerged.err.msg \o " and " \o Unmerged.warn.msg)

-----------------------------------------------------------------------------
(* Lookups that fail.                                                      *)

\* the error the lookup of each type that cannot be built returns
BuildError ==
    [t \in {"int", "badTag", "badName", "badArg", "lateBad"} |->
        CASE t = "int" -> ErrNoValidator("int")
          [] t = "badTag" -> errorString("invalid character ')'")
          [] t = "badName" -> ErrNoTagValidatorFactory("b")
          [] t = "badArg" -> InvalidTagArgumentsError("items",
                                 "only pointers to/or arrays, slices, and maps are supported")
          [] t = "lateBad" -> errorString("invalid character ')'")]

\* C27: a build that fails is not cached.  The step by which lookupValidator
\* returns the error of buildValidator leaves the map as it is: nothing is
\* installed for the type and the entries installed while it was built stay
\* (*cycle and cycle, installed for the first field of lateBad); when
\* LookupValidator(T) has returned an error the map has no entry for T; every
\* lookup of a type without an entry calls buildValidator, so a later lookup
\* of T builds again; and whatever was looked up before, the error returned
\* for T is the same one.
C27_FailedBuildsNotCached ==
    /\ [](LookupReturned /\ ret.err # Nil =>
             /\ target.t \notin DOMAIN cache
             /\ target.t \in DOMAIN BuildError /\ ret.err = BuildError[target.t]
             /\ ret.v = NoOpValidator)
    /\ [][/\ (Resumed("lookup", "build") /\ ret.err # Nil) =>
                /\ cache' = cache
                /\ ret' = ret
                /\ stack' = SubSeq(stack, 1, Len(stack) - 1)
          /\ (Calling("lookup", "call") /\ Top.ctx.Type \notin DOMAIN cache) =>
                /\ Len(stack') = Len(stack) + 1
                /\ stack'[Len(stack')].k = "build"
                /\ stack'[Len(stack')].ctx = Top.ctx
          /\ \A t \in DOMAIN cache : t \in DOMAIN cache' /\ cache'[t] = cache[t]
         ]_vars

\* the lookup of lateBad has failed after *cycle and cycle were installed
C27_Witness ==
    /\ LookupReturned /\ target.t = "lateBad"
    /\ ret.err = errorString("invalid character ')'")
    /\ "lateBad" \notin DOMAIN cache
    /\ "*cycle" \in DOMAIN cache /\ "cycle" \in DOMAIN cache

-----------------------------------------------------------------------------
(* What And reports of the children it ran.                                *)

\* the children And invoked, in order
RanChildren == SelectSeq([i \in 1..N |-> [i |-> i, err |-> children[i].err, warn |-> children[i].warn]],
                         LAMBDA c : ChildRan(c.i))

\* C28: And(v1..vn), n >= 2, returns the Errors of all the children it ran
\* joined with "and" as its Error, and the Warnings of all the children it
\* ran joined with "and" as its Warning, under every setting of StopOnError
\* and WarningsAsErrors.
C28_AndReportsEveryOutcome ==
    (Done("And") /\ N >= 2) =>
        /\ out.err = JoinedErr(RanChildren, "and")
        /\ out.warn = JoinedWarn(RanChildren, "and")

-----------------------------------------------------------------------------
(* The scanner and the terms of its input.                                 *)

\* C29: the scanner drops no term.  When parseTag has scanned a disjunct to
\* its end without an error, it holds exactly one validator for each term of
\* the text (the pieces between the commas outside parentheses), each made by
\* one call of a factory.
C29_NoTermDropped ==
    (op = "Parse" /\ pc = "scan" /\ scan.done /\ scan.err = Nil) =>
        /\ Len(scan.validators) = Len(TermsOf(scan.tag))
        /\ Len(scan.calls) = Len(scan.validators)

-----------------------------------------------------------------------------
(* Termination of the scanner.                                             *)

\* the loop of parseTag goes on: nothing but its own return ends it
SpecParseFair == SpecParse /\ WF_vars(NextParse)

\* C30: parseTag terminates on every tag.  An iteration never moves the
\* position back; it leaves the position where it is only when a name ends
\* (state name to state none: the character is read again) or when it returns
\* an error; an iteration in state none that returns no error moves on; so
\* after n iterations the position is at least n/2, the loop makes at most
\* 2*(len(tag)+1) iterations, and every scan that has begun ends.
C30_ScannerTerminates ==
    /\ []((op = "Parse" /\ pc = "scan") =>
             /\ scan.n <= 2 * (Len(scan.tag) + 1)
             /\ scan.n <= 2 * scan.i + 1
             /\ scan.i <= Len(scan.tag) + 1)
    /\ [][(op = "Parse" /\ pc = "scan" /\ ~scan.done /\ scan' # scan) =>
             /\ scan'.n = scan.n + 1
             /\ scan'.i \in {scan.i, scan.i + 1}
             /\ scan'.i = scan.i =>
                    \/ scan.state = "name" /\ scan'.state = "none" /\ ~scan'.done
                    \/ scan'.done /\ scan'.err # Nil
             /\ (scan.state = "none" /\ scan'.err = Nil) => scan'.i = scan.i + 1
         ]_vars
    /\ (op = "Parse" /\ pc = "scan") ~> (pc = "done")

\* the scan of a(1),a has ended after len+1 iterations and two more, which
\* read again the character that ended a name
C30_Witness ==
    /\ op = "Parse" /\ pc = "scan" /\ scan.done /\ scan.err = Nil
    /\ Text(scan.tag) = "a(1),a"
    /\ scan.i = Len(scan.tag) + 1
    /\ scan.n = Len(scan.tag) + 3

-----------------------------------------------------------------------------
(* Concurrent lookups and checks on one Registry.  Each goroutine calls    *)
(* Registry.LookupValidator once and, when every lookup has returned,      *)
(* checks a value that reaches a closure of delayedLookup.  One goroutine  *)
(* takes a step at a time: its calls are in stack and ret, those of the    *)
(* others in goroutines, and Switch hands the processor to another one at  *)
(* any point.  lookupValidator is taken line by line; the build between    *)
(* its two critical sections is the one of the resolution above.           *)

\* the types looked up concurrently: a cycle through a pointer, entered from
\* either end, and a type without a validator
ConcTypes == {"cycle", "*cycle", "int"}

InitConcurrent ==
    /\ op = "Concurrent"
    /\ opts = defaultOptions
    /\ children = <<>> /\ value = Invalid /\ validator = NoOpValidator /\ out = NotRun
    /\ pc = "lookup"
    /\ field = NoStructField /\ tagParts = <<>> /\ disjuncts = <<>>
    /\ scan = parseTagInit(<<>>) /\ parsed = StructTagParseResult(NoOpValidator, "")
    /\ NoResolution

\* the calls in progress of goroutine g, and the call on top
Calls(g) == IF g = running THEN stack ELSE goroutines[g].stack

RetOf(g) == IF g = running THEN ret ELSE goroutines[g].ret

At(g, k, phase) ==
    /\ Calls(g) # <<>>
    /\ Calls(g)[Len(Calls(g))].k = k /\ Calls(g)[Len(Calls(g))].phase = phase

\* the scheduler runs goroutine g
Switch(g) ==
    /\ op = "Concurrent" /\ g # running
    /\ running' = g
    /\ stack' = goroutines[g].stack /\ ret' = goroutines[g].ret
    /\ goroutines' = [goroutines EXCEPT ![running].stack = stack, ![running].ret = ret,
                                        ![g].stack = <<>>, ![g].ret = NoRet]
    /\ UNCHANGED <<pc, opts, closures, lock, outerVars>>

\* the goroutine calls Registry.LookupValidator(t)
GoLookup(t) ==
    /\ op = "Concurrent" /\ stack = <<>> /\ goroutines[running].t = ""
    /\ stack' = RootLookup(t) /\ ret' = NoRet
    /\ goroutines' = [goroutines EXCEPT ![running].t = t]
    /\ UNCHANGED <<pc, opts, closures, running, lock, outerVars>>

\* Registry.LookupValidator returns to the goroutine
GoLookupReturns ==
    /\ op = "Concurrent" /\ stack = <<>> /\ ret.has
    /\ goroutines[running].t # "" /\ ~goroutines[running].res.has
    /\ goroutines' = [goroutines EXCEPT ![running].res = ret]
    /\ ret' = NoRet
    /\ UNCHANGED <<pc, opts, stack, closures, running, lock, outerVars>>

\* lookupValidator, line 106: r.lock.RLock() returns when no goroutine holds
\* the lock for writing or waits in Lock
RLock ==
    /\ op = "Concurrent" /\ Calling("lookup", "call")
    /\ lock.writer = {} /\ lock.pending = {}
    /\ lock' = [lock EXCEPT !.readers = @ \cup {running}]
    /\ stack' = SetTop([Top EXCEPT !.phase = "rlocked"])
    /\ UNCHANGED <<pc, opts, ret, closures, running, goroutines, outerVars>>

\* line 107: v, ok := r.validators[ctx.Type]; the frame keeps <<v>> when ok
MapRead ==
    /\ op = "Concurrent" /\ Calling("lookup", "rlocked")
    /\ stack' = SetTop([Top EXCEPT !.phase = "read",
                          !.validators = IF Top.ctx.Type \in DOMAIN opts.Registry.validators
                                         THEN <<opts.Registry.validators[Top.ctx.Type]>>
                                         ELSE <<>>])
    /\ UNCHANGED <<pc, opts, ret, closures, concVars, outerVars>>

\* lines 108-115: r.lock.RUnlock(), and the entry read is returned
RUnlockFound ==
    /\ op = "Concurrent" /\ Calling("lookup", "read") /\ Top.validators # <<>>
    /\ lock' = [lock EXCEPT !.readers = @ \ {running}]
    /\ Return(Ret(IF Top.validators[1] = Nil THEN NotBuilt(ErrNoValidator(Top.ctx.Type))
                  ELSE Built(Top.validators[1])))
    /\ UNCHANGED <<opts, closures, running, goroutines, outerVars>>

\* buildValidator called with the read lock still held
RUnlockNotFoundKeepsLock ==
    /\ op = "Concurrent" /\ Calling("lookup", "read") /\ Top.validators = <<>>
    /\ lock' = lock
    /\ Call([Top EXCEPT !.phase = "build"], Frame("build", Top.ctx))
    /\ goroutines' = [goroutines EXCEPT ![running].built = @ \cup {Top.ctx.Type}]
    /\ UNCHANGED <<opts, ret, closures, running, outerVars>>

\* lines 108-118: r.lock.RUnlock(), no entry was read, buildValidator is called
RUnlockNotFound ==
    /\ op = "Concurrent" /\ Calling("lookup", "read") /\ Top.validators = <<>>
    /\ lock' = [lock EXCEPT !.readers = @ \ {running}]
    /\ Call([Top EXCEPT !.phase = "build"], Frame("build", Top.ctx))
    /\ goroutines' = [goroutines EXCEPT ![running].built = @ \cup {Top.ctx.Type}]
    /\ UNCHANGED <<opts, ret, closures, running, outerVars>>

\* lines 119-121: buildValidator returned an error
BuildFailed ==
    /\ op = "Concurrent" /\ Resumed("lookup", "build") /\ ret.err # Nil
    /\ Return(ret)
    /\ UNCHANGED <<opts, closures, concVars, outerVars>>

\* line 123: r.lock.Lock() is called; from now on RLock waits
LockCalled ==
    /\ op = "Concurrent" /\ Resumed("lookup", "build") /\ ret.err = Nil
    /\ lock' = [lock EXCEPT !.pending = @ \cup {running}]
    /\ stack' = SetTop([Top EXCEPT !.phase = "locking"])
    /\ UNCHANGED <<pc, opts, ret, closures, running, goroutines, outerVars>>

\* r.lock.Lock() without the wait for the readers and the writer
LockAcquiredAtOnce ==
    /\ op = "Concurrent" /\ Resumed("lookup", "locking")
    /\ lock' = [lock EXCEPT !.writer = @ \cup {running}, !.pending = @ \ {running}]
    /\ stack' = SetTop([Top EXCEPT !.phase = "locked"])
    /\ UNCHANGED <<pc, opts, ret, closures, running, goroutines, outerVars>>

\* line 123: r.lock.Lock() returns when no goroutine holds the lock
LockAcquired ==
    /\ op = "Concurrent" /\ Resumed("lookup", "locking")
    /\ lock.readers = {} /\ lock.writer = {}
    /\ lock' = [lock EXCEPT !.writer = {running}, !.pending = @ \ {running}]
    /\ stack' = SetTop([Top EXCEPT !.phase = "locked"])
    /\ UNCHANGED <<pc, opts, ret, closures, running, goroutines, outerVars>>

\* line 124 with another validator than the one built
MapWriteNoOp ==
    /\ op = "Concurrent" /\ Resumed("lookup", "locked")
    /\ opts' = [opts EXCEPT !.Registry.validators = (Top.ctx.Type :> NoOpValidator) @@ @]
    /\ stack' = SetTop([Top EXCEPT !.phase = "installed"])
    /\ UNCHANGED <<pc, ret, closures, concVars, outerVars>>

\* line 124: r.validators[ctx.Type] = v
MapWrite ==
    /\ op = "Concurrent" /\ Resumed("lookup", "locked")
    /\ opts' = [opts EXCEPT !.Registry.validators = (Top.ctx.Type :> ret.v) @@ @]
    /\ stack' = SetTop([Top EXCEPT !.phase = "installed"])
    /\ UNCHANGED <<pc, ret, closures, concVars, outerVars>>

\* lines 125-126: r.lock.Unlock(), and v is returned
Unlock ==
    /\ op = "Concurrent" /\ Resumed("lookup", "installed")
    /\ lock' = [lock EXCEPT !.writer = @ \ {running}]
    /\ Return(ret)
    /\ UNCHANGED <<opts, closures, running, goroutines, outerVars>>

\* the steps of buildValidator for the types looked up concurrently
BuildStep ==
    /\ op = "Concurrent"
    /\ \/ BuildStruct \/ BuildPtr \/ BuildNoValidator \/ BuildReturns
       \/ StructNextField \/ StructFieldParsed \/ StructReturns
       \/ ParserSplit \/ ParserReturns
       \/ ScanChar \/ ScanStructFactory \/ ScanCreated \/ ScanReturns

\* the closure of delayedLookup a goroutine invokes, and the goroutines that
\* are writing its variable v
ClosureAt(k) == CHOOSE c \in closures : c.t = k.t /\ c.at = k.at

KeyOf(g) == goroutines[g].c

Writing(g) == At(g, "delayed", "writing")

Reading(g) == At(g, "delayed", "call")

\* an interface value of which one word is written and the other is not
Torn == [kind |-> "torn"]

\* what a read of v returns: v, or, while other goroutines write v, also
\* what they write, or a value half written
Seen(k) ==
    {ClosureAt(k).v}
    \cup {IF RetOf(g).err # Nil THEN Nil ELSE RetOf(g).v :
             g \in {w \in Goroutines \ {running} : Writing(w) /\ KeyOf(w) = k}}
    \cup (IF \E w \in Goroutines \ {running} : Writing(w) /\ KeyOf(w) = k
          THEN {Torn} ELSE {})

\* no type was built by two goroutines: every validator the Registry holds
\* was built once, and so was each closure in it
BuiltOnce ==
    \A g \in Goroutines : \A h \in Goroutines \ {g} :
        goroutines[g].built \cap goroutines[h].built = {}

\* every lookup has returned and has left one closure c in the validators
\* the Registry holds; the goroutine checks a value with one of them, and
\* the check comes to c
GoCheck(c) ==
    /\ op = "Concurrent" /\ stack = <<>> /\ ~ret.has
    /\ \A g \in Goroutines : goroutines[g].res.has
    /\ BuiltOnce
    /\ goroutines[running].c.t = ""
    /\ stack' = <<Frame("delayed", ResolutionContext(c.at, NoStructField, c.t, RegistryPtr))>>
    /\ goroutines' = [goroutines EXCEPT ![running].c = [t |-> c.t, at |-> c.at]]
    /\ UNCHANGED <<pc, opts, ret, closures, running, lock, outerVars>>

\* delayedLookup, lines 151-153: v == nil is read, r.LookupValidator(t) is called
DelayedReadNil ==
    /\ op = "Concurrent" /\ Calling("delayed", "call")
    /\ Nil \in Seen(KeyOf(running))
    /\ Call([Top EXCEPT !.phase = "lookup"], RootLookup(Top.ctx.Type)[1])
    /\ UNCHANGED <<opts, ret, closures, concVars, outerVars>>

\* delayedLookup, line 151: v != nil is read
DelayedReadSet ==
    /\ op = "Concurrent" /\ Calling("delayed", "call")
    /\ \E v \in Seen(KeyOf(running)) \ {Nil, Torn} :
           stack' = SetTop([Top EXCEPT !.phase = "run", !.validators = <<v>>])
    /\ UNCHANGED <<pc, opts, ret, closures, concVars, outerVars>>

\* delayedLookup, line 151: v is read while it is written and v.Validate
\* (line 159) is called on a value half written: the goroutine faults
DelayedReadTorn ==
    /\ op = "Concurrent" /\ Calling("delayed", "call")
    /\ Torn \in Seen(KeyOf(running))
    /\ stack' = <<>>
    /\ goroutines' = [goroutines EXCEPT ![running].checked = "fault"]
    /\ UNCHANGED <<pc, opts, ret, closures, running, lock, outerVars>>

\* delayedLookup, line 153: r.LookupValidator(t) returned, the write of v begins
DelayedWrite ==
    /\ op = "Concurrent" /\ Resumed("delayed", "lookup")
    /\ stack' = SetTop([Top EXCEPT !.phase = "writing"])
    /\ UNCHANGED <<pc, opts, ret, closures, concVars, outerVars>>

\* lines 153-156: v is written; the error of the lookup is returned
DelayedWritten ==
    /\ op = "Concurrent" /\ Resumed("delayed", "writing")
    /\ closures' = (closures \ {ClosureAt(KeyOf(running))})
                       \cup {[ClosureAt(KeyOf(running)) EXCEPT
                                 !.v = IF ret.err # Nil THEN Nil ELSE ret.v]}
    /\ ret' = NoRet
    /\ IF ret.err # Nil
       THEN /\ stack' = <<>>
            /\ goroutines' = [goroutines EXCEPT ![running].checked = "error"]
       ELSE /\ stack' = SetTop([Top EXCEPT !.phase = "run", !.validators = <<ret.v>>])
            /\ goroutines' = goroutines
    /\ UNCHANGED <<pc, opts, running, lock, outerVars>>

\* line 159: v.Validate(ctx) has returned, and so does the closure
DelayedRan ==
    /\ op = "Concurrent" /\ Calling("delayed", "run")
    /\ stack' = <<>>
    /\ goroutines' = [goroutines EXCEPT ![running].checked = "ran"]
    /\ UNCHANGED <<pc, opts, ret, closures, running, lock, outerVars>>

\* a step of the goroutine that runs
GoStep ==
    \/ RLock \/ MapRead \/ RUnlockFound \/ RUnlockNotFound
    \/ BuildFailed \/ LockCalled \/ LockAcquired \/ MapWrite \/ Unlock
    \/ BuildStep
    \/ GoLookupReturns
    \/ DelayedReadNil \/ DelayedReadSet \/ DelayedReadTorn
    \/ DelayedWrite \/ DelayedWritten \/ DelayedRan

NextConcurrent ==
    \/ \E g \in Goroutines : Switch(g)
    \/ \E t \in ConcTypes : GoLookup(t)
    \/ \E c \in closures : GoCheck(c)
    \/ GoStep

SpecConcurrent == InitConcurrent /\ [][NextConcurrent]_vars

\* every goroutine is scheduled again and again, and a goroutine that can
\* take a step when it is scheduled takes one
SpecConcurrentFair ==
    /\ SpecConcurrent
    /\ \A g \in Goroutines : WF_vars(Switch(g)) /\ SF_vars(GoStep /\ running = g)

-----------------------------------------------------------------------------
(* Properties of concurrent lookups and checks.                            *)

\* goroutine g is between RLock and RUnlock, where the map is read
InRead(g) == At(g, "lookup", "rlocked") \/ At(g, "lookup", "read")

\* goroutine g is between Lock and Unlock, where the map is written
InWrite(g) == At(g, "lookup", "locked") \/ At(g, "lookup", "installed")

\* C23: the accesses to the Registry's map are synchronized.  While a
\* goroutine is between Lock and Unlock, where it writes the map, no other
\* goroutine is there and none is between RLock and RUnlock, where the map
\* is read; the lock is held by exactly the goroutines inside these
\* sections; and the map changes only by the write of the goroutine that
\* holds the lock for writing.
C23_CacheAccessSynchronized ==
    /\ [](op = "Concurrent" =>
             /\ \A g \in Goroutines : InWrite(g) =>
                    \A h \in Goroutines \ {g} : ~InWrite(h) /\ ~InRead(h)
             /\ lock.readers = {g \in Goroutines : InRead(g)}
             /\ lock.writer = {g \in Goroutines : InWrite(g)}
             /\ lock.writer # {} => lock.readers = {})
    /\ [][(op = "Concurrent" /\ opts' # opts) =>
             /\ At(running, "lookup", "locked") /\ lock.writer = {running}
             /\ running' = running
         ]_vars

\* two goroutines are between RLock and RUnlock at once: reads overlap
C23_Witness ==
    /\ op = "Concurrent"
    /\ InRead("g1") /\ InRead("g2")
    /\ lock.readers = {"g1", "g2"} /\ lock.writer = {}

\* C24: the validators the Registry hands out have no variable that checks
\* running concurrently write, or read while it is written, outside the
\* Registry's lock: no goroutine is writing the variable v of a closure of
\* delayedLookup while another goroutine is about to read or is writing the
\* v of the same closure, and no check faults.
C24_NoSharedStateOutsideTheLock ==
    op = "Concurrent" =>
        /\ \A g \in Goroutines : Writing(g) =>
               \A h \in Goroutines \ {g} :
                   KeyOf(h) = KeyOf(g) => ~Writing(h) /\ ~Reading(h)
        /\ \A g \in Goroutines : goroutines[g].checked # "fault"

-----------------------------------------------------------------------------
(* Two goroutines that build the validator of one type.                    *)

\* what LookupValidator(t) returns to the only goroutine of a program, on a
\* Registry that holds nothing yet
SingleThreaded(t) == LookupValidator(DefaultRegistry, t)

\* what a check of val with validator v returns, with the Registry as r
OutcomeOf(v, r, val) ==
    LET res == Validate(v, Context([defaultOptions EXCEPT !.Registry = r], val))
    IN  <<res.err, res.warn, res.panic>>

\* v, with the Registry as it is now, returns for every value of type t what
\* the validator of the single-threaded lookup returns
EquivalentToSingle(t, v) ==
    \A val \in DelayedValues(t) :
        OutcomeOf(v, opts.Registry, val) = OutcomeOf(SingleThreaded(t).v, DefaultRegistry, val)

\* both goroutines found no entry for t and called buildValidator for it
BuiltTwice(t) == \A g \in Goroutines : t \in goroutines[g].built

\* C25: building the validator of a type twice is harmless.  Every lookup
\* that has returned has returned the error of the single-threaded lookup
\* or, without an error, a validator that returns for every value what the
\* validator of the single-threaded lookup returns; the type then has an
\* entry in the map (one: the map is keyed by the type), and every entry of
\* the map, whichever build installed it last, is such a validator too.
C25_DuplicateBuildsHarmless ==
    op = "Concurrent" =>
        /\ \A g \in Goroutines : goroutines[g].res.has =>
               LET t == goroutines[g].t
                   res == goroutines[g].res
               IN  /\ res.err = SingleThreaded(t).err
                   /\ res.err = Nil =>
                          /\ t \in DOMAIN cache
                          /\ EquivalentToSingle(t, res.v)
                          /\ EquivalentToSingle(t, cache[t])
                   /\ res.err # Nil => t \notin DOMAIN cache
        /\ \A t \in DOMAIN cache :
               /\ t \in ConcTypes
               /\ SingleThreaded(t).err = Nil
               /\ EquivalentToSingle(t, cache[t])

\* both goroutines have looked up *cycle, both have built it, and both
\* lookups have returned
C25_Witness ==
    /\ op = "Concurrent"
    /\ \A g \in Goroutines : goroutines[g].t = "*cycle" /\ goroutines[g].res.has
    /\ BuiltTwice("*cycle") /\ BuiltTwice("cycle")


-----------------------------------------------------------------------------
(* Lookups and the lock.                                                   *)

\* goroutine g waits in Lock
InLock(g) == At(g, "lookup", "locking")

\* goroutine g has called RLock or Lock and the call cannot return yet
Blocked(g) ==
    \/ At(g, "lookup", "call") /\ (lock.writer # {} \/ lock.pending # {})
    \/ InLock(g) /\ (lock.readers # {} \/ lock.writer # {})

\* the calls of lookupValidator goroutine g is in
LookupsOf(g) == {i \in 1..Len(Calls(g)) : Calls(g)[i].k = "lookup"}

\* C26: lookups cannot deadlock.  The lock is held by a goroutine only from
\* RLock to RUnlock and from Lock to Unlock, which is always its innermost
\* call: a goroutine that builds holds nothing, and so holds nothing in the
\* lookups a build makes.  The goroutines are never all waiting for the
\* lock.  Every call of lookupValidator, at any depth (a build makes no
\* lookup of a type it is building, so the depth is at most the number of
\* types), by any goroutine, returns, and so does every call of
\* Registry.LookupValidator.
C26_LookupsNeverDeadlock ==
    /\ [](op = "Concurrent" =>
             /\ \A g \in Goroutines : \A i \in LookupsOf(g) :
                    i < Len(Calls(g)) => Calls(g)[i].phase = "build"
             /\ \A g \in Goroutines :
                    /\ g \in lock.readers <=> InRead(g)
                    /\ g \in lock.writer <=> InWrite(g)
                    /\ g \in lock.pending <=> InLock(g)
             /\ \A g \in Goroutines : Cardinality(LookupsOf(g)) <= Cardinality(ConcTypes)
             /\ \E g \in Goroutines : ~Blocked(g)
             /\ \A g \in Goroutines : Blocked(g) =>
                    \E h \in Goroutines \ {g} : ~Blocked(h) /\ (InRead(h) \/ InWrite(h) \/ InLock(h)))
    /\ \A g \in Goroutines : \A n \in 1..Cardinality(ConcTypes) :
           (op = "Concurrent" /\ Cardinality(LookupsOf(g)) >= n)
               ~> (Cardinality(LookupsOf(g)) < n)
    /\ \A g \in Goroutines :
           (op = "Concurrent" /\ goroutines[g].t # "") ~> goroutines[g].res.has

\* g1 has built cycle in the lookup its build of *cycle made and waits in
\* Lock while g2 reads the map
C26_Witness ==
    /\ op = "Concurrent"
    /\ InLock("g1") /\ Blocked("g1") /\ Cardinality(LookupsOf("g1")) >= 2
    /\ InRead("g2")


====
